---- MODULE Spec2Model ----
(***************************************************************************)
(* The question-ID standardization pass of                                 *)
(* docs/architecture/standardize-question-ids.py: code resolution          *)
(* (get_standardized_code), the per-file read / assign / write loop        *)
(* (standardize_question_ids) and the duplicate scan                       *)
(* (verify_no_duplicates), over a directory of JSON files.                 *)
(*                                                                         *)
(* Strings are TLA+ strings; str.lower(), slicing and the :03d format are  *)
(* computed character by character.  A JSON value is a record              *)
(* [k |-> kind, v |-> text]; a file's content is its parsed JSON value, or *)
(* a marker for bytes that json.load rejects.                              *)
(***************************************************************************)
EXTENDS Integers, Sequences, FiniteSets, TLC

(***************************************************************************)
(* Bounds of the model.                                                    *)
(***************************************************************************)
\* records in the whole corpus (all files together)
MaxRecords == 3
\* records in the whole corpus when termination is checked
MaxLiveRecords == 2
\* records in the question file when the contents of the excluded files vary
MaxExcludedRecords == 1
\* largest position drawn when get_standardized_code and the ID format are
\* exercised on their own
MaxPos == 6
\* list elements in a directory that two invocations process at once
MaxConcurrentRecords == 1
\* records in the file the migrator loads
MaxMigrateRecords == 2
\* records in the file the importer loads
MaxImportRecords == 2

(***************************************************************************)
(* Strings as Python computes them.                                        *)
(***************************************************************************)
Min(a, b) == IF a < b THEN a ELSE b

\* the letters str.lower() changes (ASCII)
LowerOf ==
    "A" :> "a" @@ "B" :> "b" @@ "C" :> "c" @@ "D" :> "d" @@ "E" :> "e" @@ "F" :> "f"
 @@ "G" :> "g" @@ "H" :> "h" @@ "I" :> "i" @@ "J" :> "j" @@ "K" :> "k" @@ "L" :> "l"
 @@ "M" :> "m" @@ "N" :> "n" @@ "O" :> "o" @@ "P" :> "p" @@ "Q" :> "q" @@ "R" :> "r"
 @@ "S" :> "s" @@ "T" :> "t" @@ "U" :> "u" @@ "V" :> "v" @@ "W" :> "w" @@ "X" :> "x"
 @@ "Y" :> "y" @@ "Z" :> "z"

\* one character of str.lower()
LowerChar(c) == IF c \in DOMAIN LowerOf THEN LowerOf[c] ELSE c

RECURSIVE LowerFrom(_, _)
\* str.lower() of s from its i-th character on
LowerFrom(s, i) ==
    IF i > Len(s) THEN ""
    ELSE LowerChar(SubSeq(s, i, i)) \o LowerFrom(s, i + 1)

\* str.lower()
Lower(s) == LowerFrom(s, 1)

\* a slice that does not truncate
PrefixWhole(s, n) == s

\* s[:n]
Prefix(s, n) == SubSeq(s, 1, Min(n, Len(s)))

DecimalDigits == "0123456789"

RECURSIVE Decimal(_)
\* the decimal digits of a natural number
Decimal(n) ==
    IF n < 10 THEN SubSeq(DecimalDigits, n + 1, n + 1)
    ELSE Decimal(n \div 10) \o SubSeq(DecimalDigits, (n % 10) + 1, (n % 10) + 1)

RECURSIVE ZeroFill(_, _)
ZeroFill(s, width) == IF Len(s) >= width THEN s ELSE ZeroFill("0" \o s, width)

\* f"{n:03d}": at least 3 digits, zero-padded on the left, never truncated
Pad3(n) == ZeroFill(Decimal(n), 3)

(***************************************************************************)
(* JSON values and question records.                                       *)
(***************************************************************************)
Str(s) == [k |-> "str", v |-> s]
\* a number such as 7: truthy, hashable, has no .lower()
Num == [k |-> "num", v |-> "7"]
\* a non-empty list such as ["x"]: truthy, unhashable
Lst == [k |-> "list", v |-> "x"]
\* the key is not in the dict
Absent == [k |-> "absent", v |-> ""]

\* Python truthiness of a value obtained with dict.get
Truthy(x) == \/ x.k \in {"num", "list"}
             \/ x.k = "str" /\ x.v # ""

\* dict.get(key, default)
GetOr(x, default) == IF x.k = "absent" THEN default ELSE x

\* a payload string holding a lone surrogate (the JSON escape \ud800): json.load
\* accepts it, writing it to a utf-8 file raises UnicodeEncodeError
Surrogate == "\\ud800"

Question(sec, sub, qid, pay) ==
    [dict |-> TRUE, section |-> sec, subsection |-> sub, question_id |-> qid,
     payload |-> pay]

\* a list element that is not a dict (a string, a number, a nested list)
NotADict ==
    [dict |-> FALSE, section |-> Absent, subsection |-> Absent,
     question_id |-> Absent, payload |-> "scalar"]

\* a table in which Parallel Reasoning and Parallel Flaw carry one code
SUBSECTION_CODES_Colliding ==
    ("Logical Reasoning" :>
        ( "Assumption" :> "lr-assum"
       @@ "Strengthen" :> "lr-str"
       @@ "Weaken" :> "lr-wk"
       @@ "Flaw in Reasoning" :> "lr-flaw"
       @@ "Inference / Must Be True" :> "lr-infmbt"
       @@ "Point at Issue / Agreement" :> "lr-poi"
       @@ "Method of Reasoning" :> "lr-method"
       @@ "Role of a Statement" :> "lr-role"
       @@ "Parallel Reasoning" :> "lr-pflw"
       @@ "Parallel Flaw" :> "lr-pflw"
       @@ "Principle Support" :> "lr-psup"
       @@ "Principle Application" :> "lr-papp"
       @@ "Paradox / Resolve-Explain" :> "lr-paradx" ))
 @@ ("Reading Comprehension" :>
        ( "Main Point" :> "rc-main"
       @@ "Primary Purpose" :> "rc-pp"
       @@ "Author's Attitude / Tone" :> "rc-att"
       @@ "Passage Organization / Structure" :> "rc-org"
       @@ "Specific Detail" :> "rc-det"
       @@ "Inference" :> "rc-inf"
       @@ "Function / Role of Statement" :> "rc-func"
       @@ "Comparative Passage Analysis" :> "rc-comp" ))
 @@ ("Writing Sample" :>
        ( "Prompt Text" :> "ws-prompt"
       @@ "Perspectives" :> "ws-persp"
       @@ "Student Response" :> "ws-resp" ))

(***************************************************************************)
(* The taxonomy table.                                                     *)
(***************************************************************************)
SUBSECTION_CODES ==
    ("Logical Reasoning" :>
        ( "Assumption" :> "lr-assum"
       @@ "Strengthen" :> "lr-str"
       @@ "Weaken" :> "lr-wk"
       @@ "Flaw in Reasoning" :> "lr-flaw"
       @@ "Inference / Must Be True" :> "lr-infmbt"
       @@ "Point at Issue / Agreement" :> "lr-poi"
       @@ "Method of Reasoning" :> "lr-method"
       @@ "Role of a Statement" :> "lr-role"
       @@ "Parallel Reasoning" :> "lr-preas"
       @@ "Parallel Flaw" :> "lr-pflw"
       @@ "Principle Support" :> "lr-psup"
       @@ "Principle Application" :> "lr-papp"
       @@ "Paradox / Resolve-Explain" :> "lr-paradx" ))
 @@ ("Reading Comprehension" :>
        ( "Main Point" :> "rc-main"
       @@ "Primary Purpose" :> "rc-pp"
       @@ "Author's Attitude / Tone" :> "rc-att"
       @@ "Passage Organization / Structure" :> "rc-org"
       @@ "Specific Detail" :> "rc-det"
       @@ "Inference" :> "rc-inf"
       @@ "Function / Role of Statement" :> "rc-func"
       @@ "Comparative Passage Analysis" :> "rc-comp" ))
 @@ ("Writing Sample" :>
        ( "Prompt Text" :> "ws-prompt"
       @@ "Perspectives" :> "ws-persp"
       @@ "Student Response" :> "ws-resp" ))

\* the module-level dict as the running process holds it
VARIABLE table

\* (section, subsection) is an exact key of the table
InTable(section, subsection) ==
    /\ section \in DOMAIN table
    /\ subsection \in DOMAIN table[section]

\* a fallback that forgets .lower()
FallbackCodeNoLower(section, subsection) ==
    Prefix(section, 2) \o "-" \o Prefix(subsection, 4)

\* the default argument of the second .get: it is evaluated on every call
FallbackCode(section, subsection) ==
    Prefix(Lower(section), 2) \o "-" \o Prefix(Lower(subsection), 4)

\* a resolver that stores the fallback it computed (dict.setdefault)
TableAfterCallStoring(tbl, section, subsection) ==
    IF section.k # "str" \/ subsection.k # "str" THEN tbl
    ELSE LET inner == IF section.v \in DOMAIN tbl THEN tbl[section.v]
                      ELSE [x \in {} |-> ""]
         IN  IF subsection.v \in DOMAIN inner THEN tbl
             ELSE (section.v :>
                     ((subsection.v :> FallbackCode(section.v, subsection.v))
                          @@ inner)) @@ tbl

\* the dict after get_standardized_code(section, subsection): the two .get
\* calls read it and insert nothing, whether or not the call raises
TableAfterCall(tbl, section, subsection) == tbl

\* a resolver that never consults the table
get_standardized_code_no_table(section, subsection) ==
    IF section.k # "str" \/ subsection.k # "str"
    THEN [ok |-> FALSE, code |-> ""]
    ELSE [ok |-> TRUE, code |-> FallbackCode(section.v, subsection.v)]

\* get_standardized_code on two JSON values: [ok |-> FALSE] when the call
\* raises (a non-string has no .lower(); a list is not hashable)
get_standardized_code(section, subsection) ==
    IF section.k # "str" \/ subsection.k # "str"
    THEN [ok |-> FALSE, code |-> ""]
    ELSE [ok |-> TRUE,
          code |-> IF InTable(section.v, subsection.v)
                   THEN table[section.v][subsection.v]
                   ELSE FallbackCode(section.v, subsection.v)]

\* an ID numbered with enumerate's 0-based i
NewIdZeroBased(code, position) == code \o "-" \o Pad3(position - 1)

\* an ID that leaves the position out
NewIdUnnumbered(code, position) == code

\* an ID whose number keeps only its last 3 digits
NewIdThreeDigits(code, position) == code \o "-" \o Pad3(position % 1000)

\* f"{code}-{i+1:03d}", position = i + 1
NewId(code, position) == code \o "-" \o Pad3(position)

(***************************************************************************)
(* The corpus: a directory of named files.                                 *)
(***************************************************************************)
\* an exclusion list that names the taxonomy file only
ExcludedNamesTaxonomyOnly == {"lsat_taxonomy_2025.json"}

\* the names that both loops skip
ExcludedNames == {"lsat_taxonomy_2025.json", "universal_question_schema.json"}

\* the *.json names the directory can hold
Files == {"a.json", "b.json", "lsat_taxonomy_2025.json",
          "universal_question_schema.json"}

\* the directory has no file of that name
Missing == [kind |-> "missing", items |-> <<>>]
\* what glob("*.json") yields
Present(d) == {f \in Files : d[f] # Missing}

\* bytes that json.load rejects (invalid JSON, invalid UTF-8)
Bad == [kind |-> "bad", items |-> <<>>]
\* what a json.dump that raised part-way leaves behind: the file was emptied
\* by open(.., 'w') and holds at most a prefix of the output
Truncated == [kind |-> "truncated", items |-> <<>>]
\* valid JSON whose top level is not a list (an object, a string, a number)
NonList == [kind |-> "nonlist", items |-> <<>>]
\* a JSON list
ListOf(items) == [kind |-> "list", items |-> items]

\* json.load succeeds
Parses(content) == content.kind \in {"list", "nonlist"}

\* json.dump(.., ensure_ascii=False) into a utf-8 file succeeds
Encodable(items) == \A i \in 1..Len(items) : items[i].payload # Surrogate

\* the records the corpus is built from
\* a table pair, with an ID to replace
QStrengthen == Question(Str("Logical Reasoning"), Str("Strengthen"), Str("old-1"), "text")
\* a pair the table does not have, with no ID yet
QUnknown    == Question(Str("Foo"), Str("Barbaz"), Absent, "text")
\* another pair the table does not have, with the same first 4 characters
QSameFallback == Question(Str("Foo"), Str("Barbie"), Absent, "text")
\* no section key; holds an ID
QNoSection  == Question(Absent, Str("Strengthen"), Str("old-1"), "text")
\* an empty subsection; holds no ID
QNoId       == Question(Str("Foo"), Str(""), Absent, "text")
\* a subsection that is a number, and an ID that is a list
QNumber     == Question(Str("Foo"), Num, Lst, "text")
\* a table pair, with a lone surrogate in another field
QSurrogate  == Question(Str("Logical Reasoning"), Str("Weaken"), Absent, Surrogate)

RecordPool ==
    {QStrengthen, QUnknown, QSameFallback, QNoSection, QNoId, QNumber,
     QSurrogate, NotADict}

\* the contents a file of n list elements can have (a file that is no list
\* holds no records)
ContentsOfLen(n) ==
    {ListOf(s) : s \in [1..n -> RecordPool]}
        \cup (IF n = 0 THEN {Bad, NonList} ELSE {})

NoFile == "<none>"

(***************************************************************************)
(* State.                                                                  *)
(***************************************************************************)
VARIABLES
    dirExists,                \* QUESTIONS_DIR exists
    disk,                     \* file name -> content on disk
    run,                      \* "first" or "second" invocation of the script
    pc,                       \* position in standardize_question_ids
    todo,                     \* files the first glob loop has not yielded yet
    cur,                      \* json_file of the iteration in progress
    questions,                \* the list loaded by the current iteration
    updated_count,            \* per-file counter
    files_processed,
    total_questions_updated,
    vtodo,                    \* files the glob loop of verify_no_duplicates has not yielded
    all_ids,
    duplicate_ids,
    disk0,                    \* the corpus as the current run found it
    disk1,                    \* the corpus as the first run left it
    written,                  \* files the current run has written back
    call,                     \* arguments of a stand-alone code resolution
    ret,                      \* its result
    procs,                    \* two concurrent invocations of the pass: process -> locals
    db,                       \* the hosted database the loaders talk to
    mig,                      \* the QuestionMigrator and its position in run_migration
    imp                       \* the QuestionImporter and the batches it was given

vars == <<dirExists, disk, run, pc, todo, cur, questions, updated_count,
          files_processed, total_questions_updated, vtodo, all_ids,
          duplicate_ids, disk0, disk1, written, call, ret, table,
          procs, db, mig, imp>>

\* the state of the loaders and of a second concurrent invocation
otherVars == <<procs, db, mig, imp>>

\* no concurrent invocation, no loader and no database in use
NoProcs == <<>>
NoDb == [tenant |-> FALSE, exam_type |-> FALSE, unique |-> FALSE, rows |-> <<>>]
NoMig == [pc |-> "unused"]
NoImp == [pc |-> "unused"]
NoOthers ==
    /\ procs = NoProcs
    /\ db = NoDb
    /\ mig = NoMig
    /\ imp = NoImp

passVars == <<todo, cur, questions, updated_count, files_processed,
              total_questions_updated>>
verifyVars == <<vtodo, all_ids, duplicate_ids>>
resolveVars == <<call, ret>>

NoCall == [section |-> Absent, subsection |-> Absent, question_id |-> Absent,
           position |-> 0]
NoRet == [resolved |-> [called |-> FALSE, ok |-> FALSE, code |-> ""],
          assigned |-> [ran |-> FALSE, outcome |-> "", question |-> NotADict,
                        changed |-> FALSE, after |-> FALSE],
          again |-> [called |-> FALSE, ok |-> FALSE, code |-> "",
                     between |-> FALSE]]

(***************************************************************************)
(* The assignment loop over one file's list (lines 95-119).                *)
(***************************************************************************)
\* the loop body reaches "continue" for this element
Skips(q) ==
    \/ ~q.dict
    \/ ~Truthy(GetOr(q.section, Str("")))
    \/ ~Truthy(GetOr(q.subsection, Str("")))

\* a loop body that rebuilds the record from the three fields it knows
AssignOneRebuilt(question, pos) ==
    IF Skips(question)
    THEN [outcome |-> "skip", question |-> question, changed |-> FALSE]
    ELSE LET r == get_standardized_code(GetOr(question.section, Str("")),
                                        GetOr(question.subsection, Str("")))
         IN  IF ~r.ok
             THEN [outcome |-> "raise", question |-> question, changed |-> FALSE]
             ELSE [outcome |-> "assign",
                   question |-> Question(question.section, question.subsection,
                                         Str(NewId(r.code, pos)), ""),
                   changed |-> TRUE]

\* a loop body that counts every assignment as a change
AssignOneCountsAll(question, pos) ==
    IF Skips(question)
    THEN [outcome |-> "skip", question |-> question, changed |-> FALSE]
    ELSE LET r == get_standardized_code(GetOr(question.section, Str("")),
                                        GetOr(question.subsection, Str("")))
         IN  IF ~r.ok
             THEN [outcome |-> "raise", question |-> question, changed |-> FALSE]
             ELSE [outcome |-> "assign",
                   question |-> [question EXCEPT !.question_id = Str(NewId(r.code, pos))],
                   changed |-> TRUE]

\* a loop body that builds the new ID from the ID the record holds, when it
\* holds one, instead of from its code
AssignOneFromOldId(question, pos) ==
    IF Skips(question)
    THEN [outcome |-> "skip", question |-> question, changed |-> FALSE]
    ELSE LET r == get_standardized_code(GetOr(question.section, Str("")),
                                        GetOr(question.subsection, Str("")))
         IN  IF ~r.ok
             THEN [outcome |-> "raise", question |-> question, changed |-> FALSE]
             ELSE LET old_id == GetOr(question.question_id, Str("missing"))
                      new_id == Str(NewId(IF question.question_id.k = "str"
                                          THEN question.question_id.v ELSE r.code, pos))
                  IN  [outcome |-> "assign",
                       question |-> [question EXCEPT !.question_id = new_id],
                       changed |-> old_id # new_id]

\* the loop body (lines 96-119) on the element at 1-based position pos:
\* "skip" (continue), "raise" (get_standardized_code raised) or "assign"
AssignOne(question, pos) ==
    IF Skips(question)
    THEN [outcome |-> "skip", question |-> question, changed |-> FALSE]
    ELSE LET r == get_standardized_code(GetOr(question.section, Str("")),
                                        GetOr(question.subsection, Str("")))
         IN  IF ~r.ok
             THEN [outcome |-> "raise", question |-> question, changed |-> FALSE]
             ELSE LET new_id == Str(NewId(r.code, pos))
                      old_id == GetOr(question.question_id, Str("missing"))
                  IN  [outcome |-> "assign",
                       question |-> [question EXCEPT !.question_id = new_id],
                       changed |-> old_id # new_id]

RECURSIVE AssignLoopByCount(_, _, _)
\* a loop that numbers a record with updated_count + 1 instead of i + 1
AssignLoopByCount(qs, pos, count) ==
    IF pos > Len(qs)
    THEN [questions |-> qs, updated_count |-> count, raised |-> FALSE]
    ELSE LET r == AssignOne(qs[pos], count + 1) IN
         IF r.outcome = "raise"
         THEN [questions |-> qs, updated_count |-> count, raised |-> TRUE]
         ELSE AssignLoopByCount([qs EXCEPT ![pos] = r.question], pos + 1,
                                IF r.changed THEN count + 1 ELSE count)

RECURSIVE AssignLoopDense(_, _, _)
\* a loop that numbers a record by its rank among the records not skipped
AssignLoopDense(qs, pos, count) ==
    IF pos > Len(qs)
    THEN [questions |-> qs, updated_count |-> count, raised |-> FALSE]
    ELSE LET r == AssignOne(qs[pos],
                            pos - Cardinality({j \in 1..(pos - 1) : Skips(qs[j])}))
         IN
         IF r.outcome = "raise"
         THEN [questions |-> qs, updated_count |-> count, raised |-> TRUE]
         ELSE [AssignLoopDense(qs, pos + 1, IF r.changed THEN count + 1 ELSE count)
                   EXCEPT !.questions[pos] = r.question]

RECURSIVE AssignLoop(_, _, _)
\* the for loop from position pos on; raised: the loop was left by an
\* exception, with the earlier elements already reassigned in memory.  The
\* body at position pos reads and writes the element at pos only, so the
\* later iterations are computed on qs and the element at pos is set in
\* their result.
AssignLoop(qs, pos, count) ==
    IF pos > Len(qs)
    THEN [questions |-> qs, updated_count |-> count, raised |-> FALSE]
    ELSE LET r == AssignOne(qs[pos], pos) IN
         IF r.outcome = "raise"
         THEN [questions |-> qs, updated_count |-> count, raised |-> TRUE]
         ELSE [AssignLoop(qs, pos + 1, IF r.changed THEN count + 1 ELSE count)
                   EXCEPT !.questions[pos] = r.question]

RECURSIVE TableAfterLoop(_, _, _)
\* the dict after the for loop from position pos on: one call of
\* get_standardized_code for every element the loop does not skip, up to the
\* one that raises
TableAfterLoop(tbl, qs, pos) ==
    IF pos > Len(qs) THEN tbl
    ELSE IF Skips(qs[pos]) THEN TableAfterLoop(tbl, qs, pos + 1)
    ELSE IF AssignOne(qs[pos], pos).outcome = "raise"
         THEN TableAfterCall(tbl, GetOr(qs[pos].section, Str("")),
                             GetOr(qs[pos].subsection, Str("")))
    ELSE TableAfterLoop(TableAfterCall(tbl, GetOr(qs[pos].section, Str("")),
                                       GetOr(qs[pos].subsection, Str(""))),
                        qs, pos + 1)

(***************************************************************************)
(* The scan of one file by verify_no_duplicates (lines 156-170).           *)
(***************************************************************************)
RECURSIVE ScanListFlagsFirst(_, _, _, _)
\* an inner loop that reports an ID as duplicated the first time it meets it
ScanListFlagsFirst(items, i, all, dup) ==
    IF i > Len(items) THEN [all_ids |-> all, duplicate_ids |-> dup]
    ELSE LET qid == items[i].question_id IN
         IF ~items[i].dict \/ ~Truthy(qid) THEN ScanListFlagsFirst(items, i + 1, all, dup)
         ELSE IF qid.k = "list" THEN [all_ids |-> all, duplicate_ids |-> dup]
         ELSE ScanListFlagsFirst(items, i + 1, all \cup {qid}, dup \cup {qid})

RECURSIVE ScanList(_, _, _, _)
\* the inner for loop; an unhashable question_id raises TypeError, which the
\* file-level except catches: the rest of the file is not scanned
ScanList(items, i, all, dup) ==
    IF i > Len(items) THEN [all_ids |-> all, duplicate_ids |-> dup]
    ELSE LET qid == items[i].question_id IN
         IF ~items[i].dict \/ ~Truthy(qid) THEN ScanList(items, i + 1, all, dup)
         ELSE IF qid.k = "list" THEN [all_ids |-> all, duplicate_ids |-> dup]
         ELSE IF qid \in all THEN ScanList(items, i + 1, all, dup \cup {qid})
         ELSE ScanList(items, i + 1, all \cup {qid}, dup)

\* one iteration of the loop: a file that does not parse raises in json.load;
\* iterating a non-list yields nothing that is a dict, or raises
ScanFile(content, all, dup) ==
    IF content.kind = "list" THEN ScanList(content.items, 1, all, dup)
    ELSE [all_ids |-> all, duplicate_ids |-> dup]

(***************************************************************************)
(* Initial states: every corpus of up to MaxRecords list elements, or no   *)
(* directory at all.                                                       *)
(***************************************************************************)
Idle ==
    /\ run = "first"
    /\ pc = "start"
    /\ todo = {}
    /\ cur = NoFile
    /\ questions = <<>>
    /\ updated_count = 0
    /\ files_processed = 0
    /\ total_questions_updated = 0
    /\ vtodo = {}
    /\ all_ids = {}
    /\ duplicate_ids = {}

\* what the excluded file holds: a list with a record the pass would
\* renumber if it read it
ExcludedContent == ListOf(<<QStrengthen>>)

\* a directory with the two question files and the two excluded files
CorpusWith(ca, cb, ct, cs) ==
    ("a.json" :> ca) @@ ("b.json" :> cb) @@ ("lsat_taxonomy_2025.json" :> ct)
        @@ ("universal_question_schema.json" :> cs)

Corpus(ca, cb) == CorpusWith(ca, cb, ExcludedContent, Missing)

\* a directory that does not exist holds no file
NoCorpus == [f \in Files |-> Missing]

\* the script is about to run on a corpus of at most n list elements
CorpusUpTo(n) ==
    /\ \/ /\ dirExists = TRUE
          \* the two files are interchangeable: a.json is the longer one
          /\ \E la \in 0..n, lb \in 0..n :
                /\ lb <= la
                /\ la + lb <= n
                /\ \E ca \in ContentsOfLen(la), cb \in ContentsOfLen(lb) :
                      disk = Corpus(ca, cb)
       \/ dirExists = FALSE /\ disk = NoCorpus
    /\ disk0 = disk
    /\ disk1 = disk
    /\ written = {}
    /\ Idle
    /\ call = NoCall
    /\ ret = NoRet
    /\ table = SUBSECTION_CODES

InitUpTo(n) == CorpusUpTo(n) /\ NoOthers

Init == InitUpTo(MaxRecords)

InitLive == InitUpTo(MaxLiveRecords)

\* what an excluded file can hold: nothing that parses, or a list with a
\* record the pass would renumber, keep, or give a fallback code
ExcludedContents ==
    {Missing, Bad, ListOf(<<QStrengthen>>), ListOf(<<QNoSection>>),
     ListOf(<<QUnknown>>)}

\* the script is about to run on a directory with one question file of at
\* most MaxExcludedRecords elements and any contents of the excluded files
InitExcluded ==
    /\ dirExists = TRUE
    /\ \E la \in 0..MaxExcludedRecords :
          \E ca \in ContentsOfLen(la), ct \in ExcludedContents,
             cs \in ExcludedContents :
                disk = CorpusWith(ca, Missing, ct, cs)
    /\ disk0 = disk
    /\ disk1 = disk
    /\ written = {}
    /\ Idle
    /\ call = NoCall
    /\ ret = NoRet
    /\ table = SUBSECTION_CODES
    /\ NoOthers

(***************************************************************************)
(* standardize_question_ids (lines 61-141).                                *)
(***************************************************************************)
\* lines 64-73: the directory check and the counters
Start ==
    /\ pc = "start"
    /\ pc' = IF dirExists THEN "loop" ELSE "returned"
    /\ todo' = IF dirExists THEN Present(disk) ELSE {}
    /\ files_processed' = 0
    /\ total_questions_updated' = 0
    /\ disk0' = disk
    /\ written' = {}
    /\ UNCHANGED <<dirExists, disk, run, cur, questions, updated_count, disk1>>
    /\ UNCHANGED verifyVars
    /\ UNCHANGED resolveVars
    /\ UNCHANGED table
    /\ UNCHANGED otherVars

\* lines 76-78: the loop yields an excluded name
SkipExcluded(f) ==
    /\ pc = "loop"
    /\ f \in todo
    /\ f \in ExcludedNames
    /\ todo' = todo \ {f}
    /\ UNCHANGED <<dirExists, disk, run, pc, cur, questions, updated_count,
                   files_processed, total_questions_updated, disk0, disk1, written>>
    /\ UNCHANGED verifyVars
    /\ UNCHANGED resolveVars
    /\ UNCHANGED table
    /\ UNCHANGED otherVars

\* a read failure that leaves the loop instead of the iteration
ReadFailsAborts(f) ==
    /\ pc = "loop"
    /\ f \in todo
    /\ f \notin ExcludedNames
    /\ ~Parses(disk[f])
    /\ todo' = {}
    /\ UNCHANGED <<dirExists, disk, run, pc, cur, questions, updated_count,
                   files_processed, total_questions_updated, disk0, disk1, written>>
    /\ UNCHANGED verifyVars
    /\ UNCHANGED resolveVars
    /\ UNCHANGED table
    /\ UNCHANGED otherVars

\* lines 84-85, 129-132: json.load raises, the except clause logs it
ReadFails(f) ==
    /\ pc = "loop"
    /\ f \in todo
    /\ f \notin ExcludedNames
    /\ ~Parses(disk[f])
    /\ todo' = todo \ {f}
    /\ UNCHANGED <<dirExists, disk, run, pc, cur, questions, updated_count,
                   files_processed, total_questions_updated, disk0, disk1, written>>
    /\ UNCHANGED verifyVars
    /\ UNCHANGED resolveVars
    /\ UNCHANGED table
    /\ UNCHANGED otherVars

\* a skip of a non-list file that counts the file as processed
SkipNonListCounted(f) ==
    /\ pc = "loop"
    /\ f \in todo
    /\ f \notin ExcludedNames
    /\ disk[f].kind = "nonlist"
    /\ todo' = todo \ {f}
    /\ files_processed' = files_processed + 1
    /\ UNCHANGED <<dirExists, disk, run, pc, cur, questions, updated_count,
                   total_questions_updated, disk0, disk1, written>>
    /\ UNCHANGED verifyVars
    /\ UNCHANGED resolveVars
    /\ UNCHANGED table
    /\ UNCHANGED otherVars

\* a skip of a non-list file that saves the file again as an empty list
SkipNonListRewrites(f) ==
    /\ pc = "loop"
    /\ f \in todo
    /\ f \notin ExcludedNames
    /\ disk[f].kind = "nonlist"
    /\ todo' = todo \ {f}
    /\ disk' = [disk EXCEPT ![f] = ListOf(<<>>)]
    /\ UNCHANGED <<dirExists, run, pc, cur, questions, updated_count,
                   files_processed, total_questions_updated, disk0, disk1, written>>
    /\ UNCHANGED verifyVars
    /\ UNCHANGED resolveVars
    /\ UNCHANGED table
    /\ UNCHANGED otherVars

\* lines 84-89: the file parses but is not a list
SkipNonList(f) ==
    /\ pc = "loop"
    /\ f \in todo
    /\ f \notin ExcludedNames
    /\ disk[f].kind = "nonlist"
    /\ todo' = todo \ {f}
    /\ UNCHANGED <<dirExists, disk, run, pc, cur, questions, updated_count,
                   files_processed, total_questions_updated, disk0, disk1, written>>
    /\ UNCHANGED verifyVars
    /\ UNCHANGED resolveVars
    /\ UNCHANGED table
    /\ UNCHANGED otherVars

\* a load that does not wait for the file in progress to be written
ReadFileOverlapping(f) ==
    /\ pc \in {"loop", "assign"}
    /\ f \in todo
    /\ f \notin ExcludedNames
    /\ disk[f].kind = "list"
    /\ todo' = todo \ {f}
    /\ cur' = f
    /\ questions' = disk[f].items
    /\ updated_count' = 0
    /\ pc' = "assign"
    /\ UNCHANGED <<dirExists, disk, run, files_processed,
                   total_questions_updated, disk0, disk1, written>>
    /\ UNCHANGED verifyVars
    /\ UNCHANGED resolveVars
    /\ UNCHANGED table
    /\ UNCHANGED otherVars

\* lines 84-92: the file is loaded as a list
ReadFile(f) ==
    /\ pc = "loop"
    /\ f \in todo
    /\ f \notin ExcludedNames
    /\ disk[f].kind = "list"
    /\ todo' = todo \ {f}
    /\ cur' = f
    /\ questions' = disk[f].items
    /\ updated_count' = 0
    /\ pc' = "assign"
    /\ UNCHANGED <<dirExists, disk, run, files_processed,
                   total_questions_updated, disk0, disk1, written>>
    /\ UNCHANGED verifyVars
    /\ UNCHANGED resolveVars
    /\ UNCHANGED table
    /\ UNCHANGED otherVars

\* an assignment that continues the numbering of the files before
AssignIdsAcrossFiles ==
    /\ pc = "assign"
    /\ \E r \in {AssignLoop(questions, 1, 0)} :
         /\ ~r.raised
         /\ questions' = [i \in 1..Len(questions) |->
                             AssignOne(questions[i],
                                       i + total_questions_updated).question]
         /\ updated_count' = r.updated_count
    /\ pc' = "write"
    /\ UNCHANGED <<dirExists, disk, run, todo, cur, files_processed,
                   total_questions_updated, disk0, disk1, written>>
    /\ UNCHANGED verifyVars
    /\ UNCHANGED resolveVars
    /\ table' = TableAfterLoop(table, questions, 1)
    /\ UNCHANGED otherVars

\* lines 95-119: the loop over the list runs to its end
AssignIds ==
    /\ pc = "assign"
    /\ \E r \in {AssignLoop(questions, 1, 0)} :
         /\ ~r.raised
         /\ questions' = r.questions
         /\ updated_count' = r.updated_count
    /\ pc' = "write"
    /\ UNCHANGED <<dirExists, disk, run, todo, cur, files_processed,
                   total_questions_updated, disk0, disk1, written>>
    /\ UNCHANGED verifyVars
    /\ UNCHANGED resolveVars
    /\ table' = TableAfterLoop(table, questions, 1)
    /\ UNCHANGED otherVars

\* lines 95-119: get_standardized_code raises inside the loop, which is left
\* with the earlier records already reassigned in memory
AssignRaises ==
    /\ pc = "assign"
    /\ \E r \in {AssignLoop(questions, 1, 0)} :
         /\ r.raised
         /\ questions' = r.questions
         /\ updated_count' = r.updated_count
    /\ pc' = "except"
    /\ UNCHANGED <<dirExists, disk, run, todo, cur, files_processed,
                   total_questions_updated, disk0, disk1, written>>
    /\ UNCHANGED verifyVars
    /\ UNCHANGED resolveVars
    /\ table' = TableAfterLoop(table, questions, 1)
    /\ UNCHANGED otherVars

\* an except clause that saves what the loop had reassigned so far
HandleErrorPersists ==
    /\ pc = "except"
    /\ pc' = "loop"
    /\ disk' = [disk EXCEPT ![cur] = ListOf(questions)]
    /\ cur' = NoFile
    /\ questions' = <<>>
    /\ updated_count' = 0
    /\ UNCHANGED <<dirExists, run, todo, files_processed,
                   total_questions_updated, disk0, disk1, written>>
    /\ UNCHANGED verifyVars
    /\ UNCHANGED resolveVars
    /\ UNCHANGED table
    /\ UNCHANGED otherVars

\* lines 131-132: the except clause logs the error; the file is not written.
\* The locals of the iteration are dead from here on.
HandleError ==
    /\ pc = "except"
    /\ pc' = "loop"
    /\ cur' = NoFile
    /\ questions' = <<>>
    /\ updated_count' = 0
    /\ UNCHANGED <<dirExists, disk, run, todo, files_processed,
                   total_questions_updated, disk0, disk1, written>>
    /\ UNCHANGED verifyVars
    /\ UNCHANGED resolveVars
    /\ UNCHANGED table
    /\ UNCHANGED otherVars

\* lines 122-127: the list is written back and the counters advance; the
\* locals of the iteration are dead from here on
WriteFile ==
    /\ pc = "write"
    /\ Encodable(questions)
    /\ disk' = [disk EXCEPT ![cur] = ListOf(questions)]
    /\ files_processed' = files_processed + 1
    /\ total_questions_updated' = total_questions_updated + updated_count
    /\ pc' = "loop"
    /\ cur' = NoFile
    /\ questions' = <<>>
    /\ updated_count' = 0
    /\ written' = written \cup {cur}
    /\ UNCHANGED <<dirExists, run, todo, disk0, disk1>>
    /\ UNCHANGED verifyVars
    /\ UNCHANGED resolveVars
    /\ UNCHANGED table
    /\ UNCHANGED otherVars

\* lines 122-123, 131-132: open(.., 'w') has emptied the file when json.dump
\* raises on a string it cannot encode; the except clause logs it
WriteFails ==
    /\ pc = "write"
    /\ ~Encodable(questions)
    /\ disk' = [disk EXCEPT ![cur] = Truncated]
    /\ pc' = "loop"
    /\ cur' = NoFile
    /\ questions' = <<>>
    /\ updated_count' = 0
    /\ UNCHANGED <<dirExists, run, todo, files_processed,
                   total_questions_updated, disk0, disk1, written>>
    /\ UNCHANGED verifyVars
    /\ UNCHANGED resolveVars
    /\ UNCHANGED table
    /\ UNCHANGED otherVars

\* a verification that starts while files are still to be processed
FinishLoopEarly ==
    /\ pc = "loop"
    /\ pc' = "verify"
    /\ vtodo' = Present(disk)
    /\ all_ids' = {}
    /\ duplicate_ids' = {}
    /\ UNCHANGED <<dirExists, disk, run, disk0, disk1, written>>
    /\ UNCHANGED passVars
    /\ UNCHANGED resolveVars
    /\ UNCHANGED table
    /\ UNCHANGED otherVars

\* an end of the loop that returns without calling verify_no_duplicates
FinishLoopNoVerify ==
    /\ pc = "loop"
    /\ todo = {}
    /\ pc' = "returned"
    /\ UNCHANGED <<dirExists, disk, run, disk0, disk1, written>>
    /\ UNCHANGED passVars
    /\ UNCHANGED verifyVars
    /\ UNCHANGED resolveVars
    /\ UNCHANGED table
    /\ UNCHANGED otherVars

\* lines 134-147: the loop is exhausted, the summary is printed and
\* verify_no_duplicates begins
FinishLoop ==
    /\ pc = "loop"
    /\ todo = {}
    /\ pc' = "verify"
    /\ vtodo' = Present(disk)
    /\ all_ids' = {}
    /\ duplicate_ids' = {}
    /\ UNCHANGED <<dirExists, disk, run, disk0, disk1, written>>
    /\ UNCHANGED passVars
    /\ UNCHANGED resolveVars
    /\ UNCHANGED table
    /\ UNCHANGED otherVars

(***************************************************************************)
(* verify_no_duplicates (lines 143-177).                                   *)
(***************************************************************************)
RECURSIVE ScanFiles(_, _, _)
\* the loop over the directory (lines 152-170), in the order glob yields
ScanFiles(files, all, dup) ==
    IF files = {} THEN [all_ids |-> all, duplicate_ids |-> dup]
    ELSE LET f == CHOOSE g \in files : TRUE
             r == IF f \in ExcludedNames
                  THEN [all_ids |-> all, duplicate_ids |-> dup]
                  ELSE ScanFile(disk[f], all, dup)
         IN  ScanFiles(files \ {f}, r.all_ids, r.duplicate_ids)

\* a verification that removes the IDs it found duplicated from the files
VerifyClearsDuplicates ==
    /\ pc = "verify"
    /\ \E r \in {ScanFiles(vtodo, all_ids, duplicate_ids)} :
         /\ all_ids' = r.all_ids
         /\ duplicate_ids' = r.duplicate_ids
         /\ disk' = [f \in Files |->
                       IF disk[f].kind # "list" \/ f \in ExcludedNames THEN disk[f]
                       ELSE ListOf([i \in 1..Len(disk[f].items) |->
                                IF disk[f].items[i].question_id \in r.duplicate_ids
                                THEN [disk[f].items[i] EXCEPT !.question_id = Absent]
                                ELSE disk[f].items[i]])]
    /\ vtodo' = {}
    /\ pc' = "done"
    /\ UNCHANGED <<dirExists, run, disk0, disk1, written>>
    /\ UNCHANGED passVars
    /\ UNCHANGED resolveVars
    /\ UNCHANGED table
    /\ UNCHANGED otherVars

\* lines 145-177: every file is scanned and the report is printed; no file is
\* written
VerifyNoDuplicates ==
    /\ pc = "verify"
    /\ \E r \in {ScanFiles(vtodo, all_ids, duplicate_ids)} :
         /\ all_ids' = r.all_ids
         /\ duplicate_ids' = r.duplicate_ids
    /\ vtodo' = {}
    /\ pc' = "done"
    /\ UNCHANGED <<dirExists, disk, run, disk0, disk1, written>>
    /\ UNCHANGED passVars
    /\ UNCHANGED resolveVars
    /\ UNCHANGED table
    /\ UNCHANGED otherVars

\* the script is started a second time on the corpus the first run left
Rerun ==
    /\ pc \in {"done", "returned"}
    /\ run = "first"
    /\ run' = "second"
    /\ pc' = "start"
    /\ disk1' = disk
    /\ UNCHANGED <<dirExists, disk, disk0, written>>
    /\ UNCHANGED passVars
    /\ UNCHANGED verifyVars
    /\ UNCHANGED resolveVars
    /\ UNCHANGED table
    /\ UNCHANGED otherVars

Next ==
    \/ Start
    \/ \E f \in Files : SkipExcluded(f)
    \/ \E f \in Files : ReadFails(f)
    \/ \E f \in Files : SkipNonList(f)
    \/ \E f \in Files : ReadFile(f)
    \/ AssignIds
    \/ AssignRaises
    \/ WriteFile
    \/ WriteFails
    \/ HandleError
    \/ FinishLoop
    \/ VerifyNoDuplicates
    \/ Rerun

Spec == Init /\ [][Next]_vars

\* the script is one sequential process: it always takes its next step
LiveSpec == InitLive /\ [][Next]_vars /\ WF_vars(Next)

\* the runs on a directory whose excluded files hold anything
SpecExcluded == InitExcluded /\ [][Next]_vars

(***************************************************************************)
(* Two invocations of the script at the same time on one directory.  The   *)
(* operating system runs one process at a time: the locals of the running  *)
(* one are the variables of the pass, those of the suspended one are kept  *)
(* in procs.  A whole-file read (ReadFile) and a whole-file write          *)
(* (WriteFile, WriteFails) are one step each; nothing locks a file.        *)
(***************************************************************************)
\* the locals of the running invocation
Locals ==
    [pc |-> pc, todo |-> todo, cur |-> cur, questions |-> questions,
     updated_count |-> updated_count, files_processed |-> files_processed,
     total_questions_updated |-> total_questions_updated, vtodo |-> vtodo,
     all_ids |-> all_ids, duplicate_ids |-> duplicate_ids, disk0 |-> disk0,
     written |-> written]

\* the second invocation has not taken its first step
InitConcurrent ==
    /\ CorpusUpTo(MaxConcurrentRecords)
    /\ procs = <<Locals>>
    /\ db = NoDb
    /\ mig = NoMig
    /\ imp = NoImp

\* the scheduler suspends the running invocation and resumes the other one
Switch ==
    /\ procs # NoProcs
    /\ procs' = <<Locals>>
    /\ pc' = procs[1].pc
    /\ todo' = procs[1].todo
    /\ cur' = procs[1].cur
    /\ questions' = procs[1].questions
    /\ updated_count' = procs[1].updated_count
    /\ files_processed' = procs[1].files_processed
    /\ total_questions_updated' = procs[1].total_questions_updated
    /\ vtodo' = procs[1].vtodo
    /\ all_ids' = procs[1].all_ids
    /\ duplicate_ids' = procs[1].duplicate_ids
    /\ disk0' = procs[1].disk0
    /\ written' = procs[1].written
    /\ UNCHANGED <<dirExists, disk, run, disk1, db, mig, imp>>
    /\ UNCHANGED resolveVars
    /\ UNCHANGED table

NextConcurrent ==
    \/ Start
    \/ \E f \in Files : SkipExcluded(f)
    \/ \E f \in Files : ReadFails(f)
    \/ \E f \in Files : SkipNonList(f)
    \/ \E f \in Files : ReadFile(f)
    \/ AssignIds
    \/ AssignRaises
    \/ WriteFile
    \/ WriteFails
    \/ HandleError
    \/ FinishLoop
    \/ VerifyNoDuplicates
    \/ Switch

SpecConcurrent == InitConcurrent /\ [][NextConcurrent]_vars

(***************************************************************************)
(* migrate-questions-to-db.py: QuestionMigrator loads the files of the     *)
(* directory into the hosted database over its REST interface.  db.rows    *)
(* are the question_ids of the rows of the questions table of the tenant,  *)
(* in the order they were inserted; db.unique says whether the table       *)
(* rejects a second row with a question_id of the tenant (the schema is    *)
(* not part of the repository).  Every request can fail.                   *)
(***************************************************************************)
\* a JSON object whose 'questions' key holds the list
ObjectOf(items) == [kind |-> "nonlist", items |-> items]

\* records as the standardization pass leaves them
MStrengthen == [QStrengthen EXCEPT !.question_id = Str("lr-str-001")]
MUnknown == [QUnknown EXCEPT !.question_id = Str("fo-barb-002")]

MigratePool == {MStrengthen, MUnknown, QUnknown, QNoSection, NotADict}

\* what the file the migrator loads can hold: a list, as the standardization
\* pass requires and rewrites it, an object with a 'questions' list, or
\* bytes that do not parse
MigrateContents(n) ==
    {ListOf(s) : s \in [1..n -> MigratePool]}
        \cup {ObjectOf(s) : s \in [1..n -> MigratePool]}
        \cup (IF n = 0 THEN {Bad} ELSE {})

\* lines 31-37: self.stats of a new QuestionMigrator
NewStats == [files_processed |-> 0, questions_migrated |-> 0, errors |-> 0, skipped |-> 0]

NoLastFile == [name |-> NoFile, called |-> <<>>, counted |-> FALSE]
NoLastCall == [made |-> FALSE, stored |-> FALSE, outcome |-> "none"]

\* a new QuestionMigrator about to run run_migration; steps, touched, file and
\* last record what it did: the set-up steps that succeeded, whether a
\* question lookup or insert was sent, the last migrate_file and the last
\* migrate_question
NewMigrator(n) ==
    [pc |-> "test_connection", run |-> n, stats |-> NewStats, json_files |-> <<>>,
     filename |-> NoFile, questions |-> <<>>, i |-> 0, result |-> "none",
     steps |-> <<>>, touched |-> FALSE, file |-> NoLastFile, last |-> NoLastCall]

\* line 268-272: the names os.listdir yields that end in .json, sorted
SortedJsonFiles(d) ==
    SelectSeq(<<"a.json", "b.json", "lsat_taxonomy_2025.json",
                "universal_question_schema.json">>, LAMBDA f : d[f] # Missing)

InitMigrate ==
    /\ dirExists = TRUE
    /\ \E la \in 0..MaxMigrateRecords :
          \E ca \in MigrateContents(la),
             cb \in {Missing, ListOf(<<MStrengthen>>), ObjectOf(<<MStrengthen>>)} :
                disk = CorpusWith(ca, cb, Missing, Missing)
    /\ disk0 = disk
    /\ disk1 = disk
    /\ written = {}
    /\ Idle
    /\ call = NoCall
    /\ ret = NoRet
    /\ table = SUBSECTION_CODES
    /\ procs = NoProcs
    /\ imp = NoImp
    \* a database without the tenant holds no row of it
    /\ \E t \in BOOLEAN, u \in BOOLEAN, r \in {<<>>, <<Str("lr-str-001")>>} :
          /\ t \/ r = <<>>
          /\ db = [tenant |-> t, exam_type |-> t, unique |-> u, rows |-> r]
    /\ mig = NewMigrator("first")

\* the variables the migrator does not touch
notMigVars == <<dirExists, disk, run, pc, todo, cur, questions, updated_count,
                files_processed, total_questions_updated, vtodo, all_ids,
                duplicate_ids, disk0, disk1, written, call, ret, table, procs, imp>>

\* run_migration returns False (lines 250, 254, 260, 264)
Failed(m) == [m EXCEPT !.pc = "returned", !.result = "False"]

\* lines 39-54, 249-250: the connection test
test_connection ==
    /\ mig.pc = "test_connection"
    /\ \E ok \in BOOLEAN :
          mig' = IF ok THEN [mig EXCEPT !.pc = "verify_tables",
                                        !.steps = Append(@, "test_connection")]
                 ELSE Failed(mig)
    /\ UNCHANGED db
    /\ UNCHANGED notMigVars

\* a run that goes on when the table verification failed
verify_tables_unchecked ==
    /\ mig.pc = "verify_tables"
    /\ \E ok \in BOOLEAN :
          mig' = IF ok THEN [mig EXCEPT !.pc = "get_tenant_id",
                                        !.steps = Append(@, "verify_tables")]
                 ELSE [mig EXCEPT !.pc = "get_tenant_id"]
    /\ UNCHANGED db
    /\ UNCHANGED notMigVars

\* lines 56-72, 253-254: the table verification
verify_tables ==
    /\ mig.pc = "verify_tables"
    /\ \E ok \in BOOLEAN :
          mig' = IF ok THEN [mig EXCEPT !.pc = "get_tenant_id",
                                        !.steps = Append(@, "verify_tables")]
                 ELSE Failed(mig)
    /\ UNCHANGED db
    /\ UNCHANGED notMigVars

\* lines 74-111, 258-260: the tenant is looked up and, unless the lookup
\* answered with a row, created; an exception or a refused POST gives None
get_tenant_id ==
    /\ mig.pc = "get_tenant_id"
    /\ \E get \in {"answered", "status", "raised"}, post \in {"created", "refused"} :
          IF get = "raised" THEN mig' = Failed(mig) /\ UNCHANGED db
          ELSE IF get = "answered" /\ db.tenant
          THEN /\ mig' = [mig EXCEPT !.pc = "get_exam_type_id",
                                     !.steps = Append(@, "get_tenant_id")]
               /\ UNCHANGED db
          ELSE IF post = "created"
          THEN /\ mig' = [mig EXCEPT !.pc = "get_exam_type_id",
                                     !.steps = Append(@, "get_tenant_id")]
               /\ db' = [db EXCEPT !.tenant = TRUE]
          ELSE mig' = Failed(mig) /\ UNCHANGED db
    /\ UNCHANGED notMigVars

\* lines 113-160, 262-264: the same for the exam type of the tenant
get_exam_type_id ==
    /\ mig.pc = "get_exam_type_id"
    /\ \E get \in {"answered", "status", "raised"}, post \in {"created", "refused"} :
          IF get = "raised" THEN mig' = Failed(mig) /\ UNCHANGED db
          ELSE IF get = "answered" /\ db.exam_type
          THEN /\ mig' = [mig EXCEPT !.pc = "list_files",
                                     !.steps = Append(@, "get_exam_type_id")]
               /\ UNCHANGED db
          ELSE IF post = "created"
          THEN /\ mig' = [mig EXCEPT !.pc = "list_files",
                                     !.steps = Append(@, "get_exam_type_id")]
               /\ db' = [db EXCEPT !.exam_type = TRUE]
          ELSE mig' = Failed(mig) /\ UNCHANGED db
    /\ UNCHANGED notMigVars

\* lines 266-273: the .json files of the directory, in alphabetical order
ListFiles ==
    /\ mig.pc = "list_files"
    /\ mig' = [mig EXCEPT !.pc = "files", !.json_files = SortedJsonFiles(disk)]
    /\ UNCHANGED db
    /\ UNCHANGED notMigVars

\* a row of the tenant holds the question_id
Stored(id) == \E k \in 1..Len(db.rows) : db.rows[k] = id

\* lines 221-229, 239-241: migrate_file loads the next file.  json.load
\* raises on bytes that do not parse, data.get raises AttributeError on a
\* list (and on a string or a number); the except clause counts one error
\* and the file is left
LoadFile ==
    /\ mig.pc = "files"
    /\ mig.json_files # <<>>
    /\ LET f == Head(mig.json_files) IN
       \E is_dict \in BOOLEAN :
          mig' = IF /\ disk[f].kind = "nonlist"
                    /\ is_dict \/ disk[f].items # <<>>
                 THEN [mig EXCEPT !.pc = "questions",
                                  !.json_files = Tail(@),
                                  !.filename = f,
                                  !.questions = disk[f].items,
                                  !.i = 1,
                                  !.file = [name |-> f, called |-> <<>>, counted |-> FALSE]]
                 ELSE [mig EXCEPT !.json_files = Tail(@),
                                  !.stats.errors = @ + 1,
                                  !.file = [name |-> f, called |-> <<>>, counted |-> FALSE]]
    /\ UNCHANGED db
    /\ UNCHANGED notMigVars

\* lines 231-232, 162-217: the loop of migrate_file calls migrate_question on
\* the next record.  A missing key raises KeyError, which migrate_question
\* catches; on a record that is no dict the except clause itself raises
\* (question_data.get) and the exception ends migrate_file
migrate_question ==
    /\ mig.pc = "questions"
    /\ mig.i <= Len(mig.questions)
    /\ LET q == mig.questions[mig.i]
           id == q.question_id
           called == [mig EXCEPT !.i = @ + 1, !.file.called = Append(@, q)]
           error(m, stored) ==
               [m EXCEPT !.stats.errors = @ + 1,
                         !.last = [made |-> TRUE, stored |-> stored, outcome |-> "error"]]
       IN
       \E get \in {"answered", "status", "raised"}, post \in {"created", "refused"} :
          IF ~q.dict
          THEN /\ mig' = [called EXCEPT !.pc = "files", !.stats.errors = @ + 1,
                                        !.last = [made |-> TRUE, stored |-> FALSE,
                                                  outcome |-> "raised"]]
               /\ UNCHANGED db
          ELSE IF id = Absent
          THEN mig' = error(called, FALSE) /\ UNCHANGED db
          ELSE IF get = "raised"
          THEN mig' = error([called EXCEPT !.touched = TRUE], Stored(id)) /\ UNCHANGED db
          ELSE IF get = "answered" /\ Stored(id)
          THEN /\ mig' = [called EXCEPT !.touched = TRUE,
                                        !.stats.skipped = @ + 1,
                                        !.last = [made |-> TRUE, stored |-> TRUE,
                                                  outcome |-> "skipped"]]
               /\ UNCHANGED db
          ELSE IF q.section = Absent \/ q.subsection = Absent
          THEN mig' = error([called EXCEPT !.touched = TRUE], Stored(id)) /\ UNCHANGED db
          ELSE IF post = "created" /\ ~(db.unique /\ Stored(id))
          THEN /\ mig' = [called EXCEPT !.touched = TRUE,
                                        !.stats.questions_migrated = @ + 1,
                                        !.last = [made |-> TRUE, stored |-> Stored(id),
                                                  outcome |-> "inserted"]]
               /\ db' = [db EXCEPT !.rows = Append(@, id)]
          ELSE mig' = error([called EXCEPT !.touched = TRUE], Stored(id)) /\ UNCHANGED db
    /\ UNCHANGED notMigVars

\* lines 236-237: the loop of migrate_file is exhausted, the file is counted
EndFile ==
    /\ mig.pc = "questions"
    /\ mig.i > Len(mig.questions)
    /\ mig' = [mig EXCEPT !.pc = "files",
                          !.stats.files_processed = @ + 1,
                          !.file.counted = TRUE]
    /\ UNCHANGED db
    /\ UNCHANGED notMigVars

\* lines 276-282: every file was handed to migrate_file; the statistics are
\* printed and run_migration returns True
print_statistics ==
    /\ mig.pc = "files"
    /\ mig.json_files = <<>>
    /\ mig' = [mig EXCEPT !.pc = "returned", !.result = "True"]
    /\ UNCHANGED db
    /\ UNCHANGED notMigVars

\* lines 322-323: the script is run a second time, with a new QuestionMigrator
MigrateAgain ==
    /\ mig.pc = "returned"
    /\ mig.run = "first"
    /\ mig' = NewMigrator("second")
    /\ UNCHANGED db
    /\ UNCHANGED notMigVars

run_migration ==
    \/ test_connection
    \/ verify_tables
    \/ get_tenant_id
    \/ get_exam_type_id
    \/ ListFiles
    \/ LoadFile
    \/ migrate_question
    \/ EndFile
    \/ print_statistics
    \/ MigrateAgain

SpecMigrate == InitMigrate /\ [][run_migration]_vars

(***************************************************************************)
(* scripts/import-questions.py: QuestionImporter loads the files of a      *)
(* directory into the same questions table, a batch at a time.             *)
(***************************************************************************)
\* line 122
batch_size == 100

ImportPool == {MStrengthen, MUnknown, QUnknown, QNumber, NotADict}

ImportContents(n) ==
    {ListOf(s) : s \in [1..n -> ImportPool]}
        \cup {ObjectOf(s) : s \in [1..n -> ImportPool]}
        \cup (IF n = 0 THEN {Bad} ELSE {})

\* lines 27-32: self.stats of a new QuestionImporter
NewImporter(n) ==
    [pc |-> "files", run |-> n, todo |-> {}, batches |-> <<>>,
     stats |-> [processed |-> 0, imported |-> 0, skipped |-> 0, errors |-> 0]]

RECURSIVE Slices(_, _)
\* lines 123-124: questions[i:i+batch_size] for i = from - 1, from - 1 + batch_size, ..
Slices(qs, from) ==
    IF from > Len(qs) THEN <<>>
    ELSE <<SubSeq(qs, from, Min(from + batch_size - 1, Len(qs)))>>
             \o Slices(qs, from + batch_size)

InitImport ==
    /\ dirExists = TRUE
    /\ \E la \in 0..MaxImportRecords :
          \E ca \in ImportContents(la), cb \in {Missing, ListOf(<<MStrengthen>>)} :
                disk = CorpusWith(ca, cb, Missing, Missing)
    /\ disk0 = disk
    /\ disk1 = disk
    /\ written = {}
    /\ Idle
    /\ call = NoCall
    /\ ret = NoRet
    /\ table = SUBSECTION_CODES
    /\ procs = NoProcs
    /\ mig = NoMig
    /\ \E u \in BOOLEAN, r \in {<<>>, <<Str("lr-str-001")>>} :
          db = [tenant |-> TRUE, exam_type |-> TRUE, unique |-> u, rows |-> r]
    /\ imp = [NewImporter("first") EXCEPT !.todo = Present(disk)]

\* the variables the importer does not touch
notImpVars == <<dirExists, disk, run, pc, todo, cur, questions, updated_count,
                files_processed, total_questions_updated, vtodo, all_ids,
                duplicate_ids, disk0, disk1, written, call, ret, table, procs, mig>>

\* lines 106-107, 111-129: import_file loads the next file the glob yields
\* and cuts its questions into batches; json.load raising, or data.get on a
\* string or a number, is logged and counted as one error
import_file(f) ==
    /\ imp.pc = "files"
    /\ f \in imp.todo
    /\ \E is_dict \in BOOLEAN :
          imp' = IF \/ disk[f].kind = "list"
                    \/ disk[f].kind = "nonlist" /\ (is_dict \/ disk[f].items # <<>>)
                 THEN [imp EXCEPT !.todo = @ \ {f},
                                  !.stats.processed = @ + Len(disk[f].items),
                                  !.batches = Slices(disk[f].items, 1),
                                  !.pc = IF disk[f].items = <<>> THEN "files" ELSE "batches"]
                 ELSE [imp EXCEPT !.todo = @ \ {f}, !.stats.errors = @ + 1]
    /\ UNCHANGED db
    /\ UNCHANGED notImpVars

\* line 46: q['question_id'] not in existing_ids raises on an element that
\* is no dict, on a dict without the key and on an unhashable ID; lines 51-52
\* raise on a new question without section or subsection
RaisesAt(batch, existing, k) ==
    \/ ~batch[k].dict
    \/ batch[k].question_id.k \in {"absent", "list"}
    \/ /\ batch[k].question_id \notin existing
       /\ batch[k].section = Absent \/ batch[k].subsection = Absent

BatchRaises(batch, existing) == \E k \in 1..Len(batch) : RaisesAt(batch, existing, k)

\* line 62: the elements counted as skipped before the filter loop ends or
\* raises
SkippedIn(batch, existing) ==
    Cardinality({k \in 1..Len(batch) :
                    /\ \A j \in 1..k : ~RaisesAt(batch, existing, j)
                    /\ batch[k].question_id \in existing})

\* lines 44-62: the question_ids of new_questions, in batch order;
\* existing_ids is not extended while the batch is filtered
NewQuestions(batch, existing) ==
    SelectSeq([k \in 1..Len(batch) |-> batch[k].question_id],
              LAMBDA id : id \notin existing)

\* lines 34-72: import_batch on the next batch of the file.  The select or
\* the bulk insert can raise; a table that enforces unique question_ids
\* refuses a bulk insert that would store one twice, and stores none of it
import_batch ==
    /\ imp.pc = "batches"
    /\ imp.batches # <<>>
    /\ LET batch == Head(imp.batches)
           existing == {db.rows[k] : k \in 1..Len(db.rows)}
           new_questions == NewQuestions(batch, existing)
           next == [imp EXCEPT !.batches = Tail(@),
                               !.pc = IF Tail(imp.batches) = <<>> THEN "files" ELSE "batches"]
           clash == \/ \E k \in 1..Len(new_questions) : new_questions[k] \in existing
                    \/ \E j, k \in 1..Len(new_questions) :
                          j # k /\ new_questions[j] = new_questions[k]
       IN
       \E select \in {"answered", "raised"}, insert \in {"stored", "raised"} :
          IF select = "raised" \/ BatchRaises(batch, existing)
          THEN /\ imp' = [next EXCEPT !.stats.errors = @ + 1,
                                      !.stats.skipped =
                                          @ + (IF select = "raised" THEN 0
                                               ELSE SkippedIn(batch, existing))]
               /\ UNCHANGED db
          ELSE LET filtered == [next EXCEPT !.stats.skipped =
                                               @ + SkippedIn(batch, existing)]
               IN  IF new_questions = <<>>
                   THEN imp' = filtered /\ UNCHANGED db
                   ELSE IF insert = "raised" \/ (db.unique /\ clash)
                   THEN imp' = [filtered EXCEPT !.stats.errors = @ + 1] /\ UNCHANGED db
                   ELSE /\ imp' = [filtered EXCEPT !.stats.imported = @ + Len(new_questions)]
                        /\ db' = [db EXCEPT !.rows = @ \o new_questions]
    /\ UNCHANGED notImpVars

\* line 109: every file was imported, import_directory returns the stats
ReturnStats ==
    /\ imp.pc = "files"
    /\ imp.todo = {}
    /\ imp' = [imp EXCEPT !.pc = "done"]
    /\ UNCHANGED db
    /\ UNCHANGED notImpVars

\* lines 183-190: the script is run again on the same directory
ImportAgain ==
    /\ imp.pc = "done"
    /\ imp.run = "first"
    /\ imp' = [NewImporter("second") EXCEPT !.todo = Present(disk)]
    /\ UNCHANGED db
    /\ UNCHANGED notImpVars

import_directory ==
    \/ \E f \in Files : import_file(f)
    \/ import_batch
    \/ ReturnStats
    \/ ImportAgain

SpecImport == InitImport /\ [][import_directory]_vars

(***************************************************************************)
(* Code resolution and the loop body on their own: one call of             *)
(* get_standardized_code and one run of the loop body on a record at a     *)
(* given position.                                                         *)
(***************************************************************************)
TableSubsections ==
    UNION {DOMAIN SUBSECTION_CODES[s] : s \in DOMAIN SUBSECTION_CODES}

ArgSections ==
    {Str(s) : s \in DOMAIN SUBSECTION_CODES \cup {"logical reasoning", "Foo", "F", ""}}
        \cup {Num}

ArgSubsections ==
    {Str(s) : s \in TableSubsections \cup {"strengthen", "Barbaz", "Barbie", "Bar", ""}}
        \cup {Num}

ArgPositions == (1..MaxPos) \cup {999, 1000}

InitCode ==
    /\ dirExists = TRUE
    /\ disk = NoCorpus
    /\ disk0 = disk
    /\ disk1 = disk
    /\ written = {}
    /\ Idle
    /\ call \in [section : ArgSections, subsection : ArgSubsections,
                 question_id : {Absent, Str("old-1")}, position : ArgPositions]
    /\ ret = NoRet
    /\ table = SUBSECTION_CODES
    /\ NoOthers

\* lines 57-59: get_standardized_code(section, subsection)
Resolve ==
    /\ ~ret.resolved.called
    /\ LET r == get_standardized_code(call.section, call.subsection) IN
         ret' = [ret EXCEPT !.resolved = [called |-> TRUE, ok |-> r.ok, code |-> r.code]]
    /\ UNCHANGED <<dirExists, disk, run, pc, disk0, disk1, written, call>>
    /\ UNCHANGED passVars
    /\ UNCHANGED verifyVars
    /\ table' = TableAfterCall(table, call.section, call.subsection)
    /\ UNCHANGED otherVars

\* lines 96-119: the loop body on a record at position call.position
AssignRecord ==
    /\ ~ret.assigned.ran
    /\ LET r == AssignOne(Question(call.section, call.subsection,
                                   call.question_id, "text"), call.position)
       IN  ret' = [ret EXCEPT !.assigned = [ran |-> TRUE, outcome |-> r.outcome,
                                            question |-> r.question,
                                            changed |-> r.changed,
                                            after |-> ret.resolved.called]]
    /\ UNCHANGED <<dirExists, disk, run, pc, disk0, disk1, written, call>>
    /\ UNCHANGED passVars
    /\ UNCHANGED verifyVars
    /\ table' = TableAfterLoop(table, <<Question(call.section, call.subsection,
                                                 call.question_id, "text")>>, 1)
    /\ UNCHANGED otherVars

\* lines 57-59: a second call with the same arguments; between: the loop body
\* ran on a record after the first call and before this one
ResolveAgain ==
    /\ ret.resolved.called
    /\ ~ret.again.called
    /\ LET r == get_standardized_code(call.section, call.subsection) IN
         ret' = [ret EXCEPT !.again = [called |-> TRUE, ok |-> r.ok, code |-> r.code,
                                       between |-> ret.assigned.ran /\ ret.assigned.after]]
    /\ UNCHANGED <<dirExists, disk, run, pc, disk0, disk1, written, call>>
    /\ UNCHANGED passVars
    /\ UNCHANGED verifyVars
    /\ table' = TableAfterCall(table, call.section, call.subsection)
    /\ UNCHANGED otherVars

NextCode == Resolve \/ AssignRecord \/ ResolveAgain

SpecCode == InitCode /\ [][NextCode]_vars

(***************************************************************************)
(* Properties.                                                             *)
(***************************************************************************)
\* the run has ended with the report of verify_no_duplicates
Done == pc = "done"

\* the element takes the assignment branch: a dict whose section and
\* subsection are both non-empty
HasPair(q) ==
    /\ q.dict
    /\ Truthy(GetOr(q.section, Str("")))
    /\ Truthy(GetOr(q.subsection, Str("")))

\* the records of a file, as a sequence (none when it is no list)
Items(content) == IF content.kind = "list" THEN content.items ELSE <<>>

\* C1: in every file the run has written back, every dict record with a
\* non-empty section and subsection has question_id = code, "-", and its
\* 1-based index in its own file as at least 3 zero-padded digits
C1_StandardizedIds ==
    \A f \in written :
        /\ disk[f].kind = "list"
        /\ \A i \in 1..Len(disk[f].items) :
             LET q == disk[f].items[i] IN
             HasPair(q) =>
                q.question_id =
                    Str(get_standardized_code(q.section, q.subsection).code
                            \o "-" \o Pad3(i))

\* both files written; a.json's second record is numbered 002 and b.json's
\* first record 001, whatever a.json holds
C1_Witness ==
    /\ Done
    /\ written = {"a.json", "b.json"}
    /\ Len(disk["a.json"].items) = 2
    /\ Len(disk["b.json"].items) = 1
    /\ disk["a.json"].items[2].question_id = Str("fo-barb-002")
    /\ disk["b.json"].items[1].question_id = Str("lr-str-001")

\* C2: for an exact key of the table get_standardized_code returns the table's
\* code, which is not the fallback; a 'Logical Reasoning' / 'Strengthen'
\* record at position 5 ends with 'lr-str-005' whatever its old ID
C2_TableLookup ==
    /\ ( /\ ret.resolved.called
         /\ call.section.k = "str" /\ call.subsection.k = "str"
         /\ InTable(call.section.v, call.subsection.v) )
        => /\ ret.resolved.ok
           /\ ret.resolved.code = SUBSECTION_CODES[call.section.v][call.subsection.v]
           /\ ret.resolved.code # FallbackCode(call.section.v, call.subsection.v)
    /\ ( /\ ret.assigned.ran
         /\ call.section = Str("Logical Reasoning")
         /\ call.subsection = Str("Strengthen")
         /\ call.position = 5 )
        => /\ ret.assigned.outcome = "assign"
           /\ ret.assigned.question.question_id = Str("lr-str-005")

C2_Witness ==
    /\ ret.resolved.called
    /\ ret.assigned.ran
    /\ call.section = Str("Logical Reasoning")
    /\ call.subsection = Str("Strengthen")
    /\ call.question_id = Str("old-1")
    /\ call.position = 5
    /\ ret.resolved.code = "lr-str"
    /\ ret.assigned.question.question_id = Str("lr-str-005")

\* C3: for two strings that are no exact key of the table (unknown section,
\* unknown subsection of a known section, other letter case)
\* get_standardized_code does not raise and returns section.lower()[:2], "-",
\* subsection.lower()[:4]; 'Foo' / 'Barbaz' at position 2 gives 'fo-barb-002'
C3_Fallback ==
    /\ ( /\ ret.resolved.called
         /\ call.section.k = "str" /\ call.subsection.k = "str"
         /\ ~InTable(call.section.v, call.subsection.v) )
        => /\ ret.resolved.ok
           /\ ret.resolved.code =
                 Prefix(Lower(call.section.v), 2) \o "-"
                     \o Prefix(Lower(call.subsection.v), 4)
           /\ (call.section.v = "Foo" /\ call.subsection.v = "Barbaz")
                 => ret.resolved.code = "fo-barb"
           /\ (call.section.v = "logical reasoning" /\ call.subsection.v = "Strengthen")
                 => ret.resolved.code = "lo-stre"
           /\ (call.section.v = "Logical Reasoning" /\ call.subsection.v = "strengthen")
                 => ret.resolved.code = "lo-stre"
           /\ (call.section.v = "Logical Reasoning" /\ call.subsection.v = "Barbaz")
                 => ret.resolved.code = "lo-barb"
           /\ (call.section.v = "F" /\ call.subsection.v = "Bar")
                 => ret.resolved.code = "f-bar"
    /\ ( /\ ret.assigned.ran
         /\ call.section = Str("Foo")
         /\ call.subsection = Str("Barbaz")
         /\ call.position = 2 )
        => /\ ret.assigned.outcome = "assign"
           /\ ret.assigned.question.question_id = Str("fo-barb-002")

C3_Witness ==
    /\ ret.resolved.called
    /\ ret.assigned.ran
    /\ call.section = Str("Foo")
    /\ call.subsection = Str("Barbaz")
    /\ call.question_id = Absent
    /\ call.position = 2
    /\ ret.resolved.code = "fo-barb"
    /\ ret.assigned.question.question_id = Str("fo-barb-002")

\* the question_ids of a file's records, in file order
IdsOf(content) ==
    [i \in 1..Len(Items(content)) |-> Items(content)[i].question_id]

NonExcluded == Files \ ExcludedNames

\* C4: when the second of two successive runs has ended, every file holds the
\* same records with the same question_ids as when the first run ended
C4_Idempotent ==
    (run = "second" /\ Done) =>
        \A f \in Files :
            /\ disk[f].kind = disk1[f].kind
            /\ IdsOf(disk[f]) = IdsOf(disk1[f])

\* the second run has rewritten both files, one with two assigned records
C4_Witness ==
    /\ run = "second"
    /\ Done
    /\ written = {"a.json", "b.json"}
    /\ Len(disk["a.json"].items) = 2
    /\ HasPair(disk["a.json"].items[1])
    /\ HasPair(disk["a.json"].items[2])
    /\ Len(disk["b.json"].items) = 1
    /\ HasPair(disk["b.json"].items[1])
    /\ disk = disk1

\* the assignment loop over a file's records raises at one of them
Raises(items) == AssignLoop(items, 1, 0).raised

\* C5: after a run, a dict record whose section or subsection is absent or
\* empty is still in its file with the question_id it had (none if it had
\* none), and the records of that file that have both are assigned their IDs
\* (provided none of them makes get_standardized_code raise)
C5_SkipInvariant ==
    Done =>
        \A f \in NonExcluded : \A i \in 1..Len(Items(disk0[f])) :
            LET old == Items(disk0[f])[i] IN
            (old.dict /\ ~HasPair(old)) =>
                /\ disk[f].kind = "list"
                /\ Len(disk[f].items) = Len(disk0[f].items)
                /\ disk[f].items[i].question_id = old.question_id
                /\ ~Raises(disk0[f].items) =>
                      \A j \in 1..Len(disk[f].items) :
                          HasPair(disk0[f].items[j]) =>
                              disk[f].items[j].question_id =
                                  Str(get_standardized_code(
                                          disk0[f].items[j].section,
                                          disk0[f].items[j].subsection).code
                                      \o "-" \o Pad3(j))

\* the occurrences (file, index) of dict records in the files the scan reads
Occurrences ==
    {o \in NonExcluded \X (1..MaxRecords + 1) :
        /\ o[2] <= Len(Items(disk[o[1]]))
        /\ Items(disk[o[1]])[o[2]].dict}

RecordAt(o) == disk[o[1]].items[o[2]]

\* C6: when the report is out, an ID string that two records of the scanned
\* files hold is in duplicate_ids
C6_DetectsAllDuplicates ==
    Done =>
        \A x \in Occurrences : \A y \in Occurrences :
            ( /\ x # y
              /\ RecordAt(x).question_id.k = "str"
              /\ RecordAt(x).question_id.v # ""
              /\ RecordAt(x).question_id = RecordAt(y).question_id )
                => RecordAt(x).question_id \in duplicate_ids

\* the records the current run has assigned an ID and written back
Assigned == {o \in Occurrences : o[1] \in written /\ HasPair(RecordAt(o))}

PairOf(q) == <<q.section.v, q.subsection.v>>

\* the (section, subsection) pairs of strings occurring in the corpus the run
\* found
PairsInCorpus ==
    {PairOf(Items(disk0[f])[i]) :
        <<f, i>> \in {o \in NonExcluded \X (1..MaxRecords + 1) :
                        /\ o[2] <= Len(Items(disk0[o[1]]))
                        /\ HasPair(Items(disk0[o[1]])[o[2]])
                        /\ Items(disk0[o[1]])[o[2]].section.k = "str"
                        /\ Items(disk0[o[1]])[o[2]].subsection.k = "str"}}

\* different pairs of the corpus have different codes
DistinctCodes ==
    \A p1 \in PairsInCorpus : \A p2 \in PairsInCorpus :
        p1 # p2 => get_standardized_code(Str(p1[1]), Str(p1[2])).code
                       # get_standardized_code(Str(p2[1]), Str(p2[2])).code

\* no file has more than 999 records
AtMost999 == \A f \in Files : Len(Items(disk0[f])) <= 999

\* no pair is assigned in two different files
OneFilePerPair ==
    \A x \in Assigned : \A y \in Assigned :
        x[1] # y[1] => PairOf(RecordAt(x)) # PairOf(RecordAt(y))

UniqueAssignedIds ==
    \A x \in Assigned : \A y \in Assigned :
        x # y => RecordAt(x).question_id # RecordAt(y).question_id

\* C7 as stated: when the pairs of the corpus have pairwise distinct codes and
\* no file has more than 999 records, the IDs a run has assigned are pairwise
\* distinct across the corpus
C7_UniqueIfDistinctCodes ==
    (Done /\ DistinctCodes /\ AtMost999) => UniqueAssignedIds

\* C7: when the pairs of the corpus have pairwise distinct codes, no file has
\* more than 999 records and no pair is assigned in two different files, the
\* IDs a run has assigned are pairwise distinct across the corpus
C7_UniqueIfOneFilePerPair ==
    (Done /\ DistinctCodes /\ AtMost999 /\ OneFilePerPair) => UniqueAssignedIds

\* a.json holds the same pair twice, b.json another pair: three distinct IDs
C7_Witness ==
    /\ Done
    /\ Cardinality(Assigned) = 3
    /\ DistinctCodes
    /\ OneFilePerPair
    /\ Len(Items(disk["a.json"])) = 2
    /\ Len(Items(disk["b.json"])) = 1
    /\ disk["a.json"].items[1].question_id = Str("lr-str-001")
    /\ disk["a.json"].items[2].question_id = Str("lr-str-002")
    /\ disk["b.json"].items[1].question_id = Str("fo-barb-001")

LoopOver == pc \in {"verify", "done"}

\* C9: after the loop a file that did not parse is as it was and is not
\* counted, and every other file that is a list, raises nothing and can be
\* encoded has been assigned and written back
C9_BadFileIsolated ==
    LoopOver =>
        \A f \in NonExcluded :
            ~Parses(disk0[f]) =>
                /\ disk[f] = disk0[f]
                /\ f \notin written
                /\ files_processed = Cardinality(written)
                /\ \A g \in NonExcluded :
                     ( /\ disk0[g].kind = "list"
                       /\ ~Raises(disk0[g].items)
                       /\ Encodable(disk0[g].items) )
                        => /\ g \in written
                           /\ disk[g] = ListOf(AssignLoop(disk0[g].items, 1, 0).questions)

\* b.json did not parse; a.json was renumbered and is the one file counted
C9_Witness ==
    /\ Done
    /\ run = "first"
    /\ disk0["b.json"] = Bad
    /\ disk["b.json"] = Bad
    /\ written = {"a.json"}
    /\ files_processed = 1
    /\ Len(disk["a.json"].items) = 2
    /\ disk["a.json"].items[2].question_id = Str("lr-str-002")

\* a record with its question_id left out
Masked(q) == [q EXCEPT !.question_id = Absent]

\* C10: a file the run has written back has as many elements as were read,
\* in the same order; each differs from what was read in question_id at most,
\* and an element that is no dict does not differ at all
C10_OnlyQuestionIdChanges ==
    \A f \in written :
        /\ disk[f].kind = "list"
        /\ disk0[f].kind = "list"
        /\ Len(disk[f].items) = Len(disk0[f].items)
        /\ \A i \in 1..Len(disk[f].items) :
             /\ Masked(disk[f].items[i]) = Masked(disk0[f].items[i])
             /\ ~disk0[f].items[i].dict => disk[f].items[i] = disk0[f].items[i]

\* a.json was written back with a non-dict element, a skipped record and a
\* record whose ID changed
C10_Witness ==
    /\ Done
    /\ "a.json" \in written
    /\ Len(disk["a.json"].items) = 3
    /\ disk["a.json"].items[1] = NotADict
    /\ disk["a.json"].items[2] = QNoSection
    /\ disk0["a.json"].items[3] = QStrengthen
    /\ disk["a.json"].items[3].question_id = Str("lr-str-003")

\* the question_ids the records of the two question files hold
QuestionFileIds ==
    {Items(disk[o[1]])[o[2]].question_id :
        o \in {x \in {"a.json", "b.json"} \X (1..MaxRecords + 1) :
                  x[2] <= Len(Items(disk[x[1]]))}}

\* the number of records of the two question files that hold the ID
HoldersOf(id) ==
    Cardinality({x \in {"a.json", "b.json"} \X (1..MaxRecords + 1) :
                    /\ x[2] <= Len(Items(disk[x[1]]))
                    /\ Items(disk[x[1]])[x[2]].question_id = id})

\* C11: whatever the two excluded files hold, neither is ever the file being
\* processed or written, both stay as the directory first held them, and the
\* IDs and duplicates of the verification come from the question files alone
C11_ExcludedUntouched ==
    /\ \A f \in {"lsat_taxonomy_2025.json", "universal_question_schema.json"} :
          /\ cur # f
          /\ f \notin written
          /\ disk[f] = disk0[f]
          /\ disk0[f] = disk1[f]
    /\ Done => /\ all_ids \subseteq QuestionFileIds
               /\ \A id \in duplicate_ids : HoldersOf(id) >= 2

\* both excluded files hold a record with the ID 'old-1', one of them a record
\* the pass would renumber; the question file holds 'old-1' once: the report
\* has that ID and no duplicate
C11_Witness ==
    /\ Done
    /\ run = "second"
    /\ disk["lsat_taxonomy_2025.json"] = ListOf(<<QNoSection>>)
    /\ disk["universal_question_schema.json"] = ListOf(<<QStrengthen>>)
    /\ disk["a.json"] = ListOf(<<QNoSection>>)
    /\ written = {"a.json"}
    /\ all_ids = {Str("old-1")}
    /\ duplicate_ids = {}

SkippedBefore(items, i) == Cardinality({j \in 1..(i - 1) : Skips(items[j])})

\* the part of an ID after the code and the hyphen
NumberPart(id, code) == SubSeq(id, Len(code) + 2, Len(id))

\* C13: in a file written back, the number in the ID of the record at index i
\* is i in 3 digits, however many skipped elements precede it; with a skipped
\* element before it, it is not the record's rank among the assigned records
C13_RawIndexNumbering ==
    \A f \in written : \A i \in 1..Len(Items(disk[f])) :
        LET q == disk[f].items[i]
            code == get_standardized_code(q.section, q.subsection).code
            skipped == SkippedBefore(disk0[f].items, i)
        IN  HasPair(q) =>
              /\ q.question_id.k = "str"
              /\ NumberPart(q.question_id.v, code) = Pad3(i)
              /\ skipped > 0 =>
                    NumberPart(q.question_id.v, code) # Pad3(i - skipped)

\* a.json starts with a record without subsection: the two records after it
\* are numbered 002 and 003 and no record is numbered 001
C13_Witness ==
    /\ "a.json" \in written
    /\ disk0["a.json"] = ListOf(<<QNoId, QUnknown, QStrengthen>>)
    /\ disk["a.json"].items[1].question_id = Absent
    /\ disk["a.json"].items[2].question_id = Str("fo-barb-002")
    /\ disk["a.json"].items[3].question_id = Str("lr-str-003")

\* C14: the step of verify_no_duplicates leaves every file, the set of
\* written files and the counters of the pass as they were, and ends the run:
\* no assignment follows it
C14_VerificationWritesNothing ==
    [][pc = "verify" =>
          /\ disk' = disk
          /\ written' = written
          /\ files_processed' = files_processed
          /\ total_questions_updated' = total_questions_updated
          /\ pc' = "done"]_vars

\* the report names 'lr-str-001' as a duplicate, and both files still hold it
C14_Witness ==
    /\ Done
    /\ duplicate_ids = {Str("lr-str-001")}
    /\ written = {"a.json", "b.json"}
    /\ Len(Items(disk["a.json"])) = 1
    /\ Len(Items(disk["b.json"])) = 1
    /\ disk["a.json"].items[1].question_id = Str("lr-str-001")
    /\ disk["b.json"].items[1].question_id = Str("lr-str-001")

\* two names that are equal up to their 4th character and differ after it
DifferAfter4(u, v) ==
    /\ u # v
    /\ Len(u) >= 4
    /\ Len(v) >= 4
    /\ SubSeq(u, 1, 4) = SubSeq(v, 1, 4)

\* C15: when a section and a subsection without table entry are resolved,
\* every other subsection without entry under that section that differs from
\* the first only after the 4th character resolves to the same code, and a
\* record carrying it is assigned the same question_id at the same position
C15_FallbackCollision ==
    ( /\ ret.resolved.called
      /\ call.section.k = "str"
      /\ call.subsection.k = "str"
      /\ ~InTable(call.section.v, call.subsection.v) )
        => \A other \in ArgSubsections :
              ( /\ other.k = "str"
                /\ ~InTable(call.section.v, other.v)
                /\ DifferAfter4(call.subsection.v, other.v) )
                  => /\ get_standardized_code(call.section, other).ok
                     /\ get_standardized_code(call.section, other).code
                            = ret.resolved.code
                     /\ (ret.assigned.ran /\ ret.assigned.outcome = "assign") =>
                           AssignOne(Question(call.section, other, Absent, "text"),
                                     call.position).question.question_id
                               = ret.assigned.question.question_id

\* 'Foo' / 'Barbie' at position 3 gets 'fo-barb-003', the ID 'Foo' / 'Barbaz'
\* gets there
C15_Witness ==
    /\ ret.resolved.called
    /\ ret.assigned.ran
    /\ call.section = Str("Foo")
    /\ call.subsection = Str("Barbie")
    /\ call.position = 3
    /\ ret.resolved.code = "fo-barb"
    /\ ret.assigned.question.question_id = Str("fo-barb-003")
    /\ AssignOne(Question(Str("Foo"), Str("Barbaz"), Absent, "text"), 3)
           .question.question_id = Str("fo-barb-003")

\* C16: verify_no_duplicates has files to scan only after the loop of the
\* assignment pass is exhausted with no file in progress, every question file
\* then being written back, or left as found, or left truncated by a failed
\* write; and every ID in its report is held by a record as the pass left it
C16_VerifyAfterAssignment ==
    /\ (vtodo # {} \/ pc = "verify") =>
          /\ pc = "verify"
          /\ todo = {}
          /\ cur = NoFile
          /\ \A f \in {"a.json", "b.json"} :
                \/ f \in written
                \/ disk[f] = disk0[f]
                \/ disk[f] = Truncated
    /\ Done => all_ids \subseteq QuestionFileIds

\* a.json's 'old-1' was replaced before the scan: the report has the new ID
\* and not the old one
C16_Witness ==
    /\ Done
    /\ run = "first"
    /\ disk0["a.json"] = ListOf(<<QStrengthen>>)
    /\ disk0["b.json"] = Bad
    /\ written = {"a.json"}
    /\ all_ids = {Str("lr-str-001")}
    /\ Str("old-1") \notin all_ids

\* C17: a file is in progress exactly between its read and its write or
\* its abandonment, and it is a single one; a file is read only when none is
\* in progress; a step that changes the disk changes the file in progress
\* only and ends its iteration
C17_OneFileAtATime ==
    /\ [](cur # NoFile <=> pc \in {"assign", "write", "except"})
    /\ [](cur # NoFile => cur \notin todo /\ cur \notin written)
    /\ [][(cur' # cur /\ cur' # NoFile) => (cur = NoFile /\ pc = "loop")]_vars
    /\ [][disk' # disk =>
            /\ cur # NoFile
            /\ cur' = NoFile
            /\ \A f \in Files \ {cur} : disk'[f] = disk[f]]_vars

\* a.json was written back, b.json is loaded and about to be written
C17_Witness ==
    /\ pc = "write"
    /\ cur = "b.json"
    /\ written = {"a.json"}
    /\ Len(questions) = 1
    /\ disk["a.json"].kind = "list"
    /\ Len(disk["a.json"].items) = 2

\* what the loop makes of a list of records, computed from that list alone
LocalResult(items) == AssignLoop(items, 1, 0).questions

\* C18: a file written back holds what the loop makes of the records that
\* file held, whatever the other files hold and whichever was visited first;
\* two question files that held the same records hold the same IDs afterwards
C18_AssignmentIsLocal ==
    /\ \A f \in written :
          /\ disk0[f].kind = "list"
          /\ disk[f] = ListOf(LocalResult(disk0[f].items))
    /\ ( /\ {"a.json", "b.json"} \subseteq written
         /\ disk0["a.json"] = disk0["b.json"] )
          => IdsOf(disk["a.json"]) = IdsOf(disk["b.json"])

\* b.json's only record gets the ID of a.json's first record, although a.json
\* holds two records of the same pair
C18_Witness ==
    /\ Done
    /\ run = "first"
    /\ written = {"a.json", "b.json"}
    /\ disk0["a.json"] = ListOf(<<QStrengthen, QStrengthen>>)
    /\ disk0["b.json"] = ListOf(<<QStrengthen>>)
    /\ IdsOf(disk["a.json"]) = <<Str("lr-str-001"), Str("lr-str-002")>>
    /\ IdsOf(disk["b.json"]) = <<Str("lr-str-001")>>

\* C19: while the except clause handles an error of the assignment loop the
\* file in progress is on disk as the run found it; after the loop a file whose
\* assignment raised is as the run found it, is not among the written files
\* and is not counted, and the other question file, if the loop can assign and
\* encode it, has been written back
C19_NoPartialPersistence ==
    /\ pc = "except" =>
          /\ disk[cur] = disk0[cur]
          /\ cur \notin written
    /\ LoopOver =>
          \A f \in {"a.json", "b.json"} :
              (disk0[f].kind = "list" /\ Raises(disk0[f].items)) =>
                  /\ disk[f] = disk0[f]
                  /\ f \notin written
                  /\ files_processed = Cardinality(written)
                  /\ \A g \in {"a.json", "b.json"} \ {f} :
                        ( /\ disk0[g].kind = "list"
                          /\ ~Raises(disk0[g].items)
                          /\ Encodable(disk0[g].items) )
                            => g \in written

\* a.json's first record was reassigned in memory before its second raised:
\* a.json still holds 'old-1', b.json was written and is the one file counted
C19_Witness ==
    /\ Done
    /\ run = "first"
    /\ disk0["a.json"] = ListOf(<<QStrengthen, QNumber>>)
    /\ disk["a.json"] = ListOf(<<QStrengthen, QNumber>>)
    /\ LocalResult(disk0["a.json"].items)[1].question_id = Str("lr-str-001")
    /\ disk0["b.json"] = ListOf(<<QUnknown>>)
    /\ disk["b.json"].items[1].question_id = Str("fo-barb-001")
    /\ written = {"b.json"}
    /\ files_processed = 1

\* the (section, subsection) entries of a table
TableEntries(tbl) ==
    UNION { { <<sec, sub>> : sub \in DOMAIN tbl[sec] } : sec \in DOMAIN tbl }

LowercaseLetters == { LowerOf[c] : c \in DOMAIN LowerOf }

\* code matches [a-z]+-[a-z]+ : one hyphen with lowercase letters, at least
\* one, on either side and nothing else
MatchesCode(code) ==
    \E h \in 2 .. (Len(code) - 1) :
        /\ SubSeq(code, h, h) = "-"
        /\ \A i \in (1 .. Len(code)) \ {h} : SubSeq(code, i, i) \in LowercaseLetters

\* no two entries of the table carry the same code
CodesUnique(tbl) ==
    \A e1, e2 \in TableEntries(tbl) :
        tbl[e1[1]][e1[2]] = tbl[e2[1]][e2[2]] => e1 = e2

CodesMatch(tbl) == \A e \in TableEntries(tbl) : MatchesCode(tbl[e[1]][e[2]])

\* the table as loaded has pairwise distinct codes of the form [a-z]+-[a-z]+
LoadedTableWellFormed ==
    CodesUnique(SUBSECTION_CODES) /\ CodesMatch(SUBSECTION_CODES)

\* C20: in every reachable state the table the process holds is the table as
\* loaded, and so no two of its (section, subsection) entries carry the same
\* code and every code matches [a-z]+-[a-z]+
C20_TableFixedUniquePattern ==
    /\ table = SUBSECTION_CODES
    /\ LoadedTableWellFormed

\* a second run has ended after codes were taken from the table and from the
\* fallback, and the table holds its entry for Strengthen and none for 'Foo'
C20_Witness ==
    /\ Done
    /\ run = "second"
    /\ Len(Items(disk["a.json"])) = 2
    /\ disk["a.json"].items[1].question_id = Str("lr-str-001")
    /\ disk["a.json"].items[2].question_id = Str("fo-barb-002")
    /\ "a.json" \in written
    /\ table["Logical Reasoning"]["Strengthen"] = "lr-str"
    /\ "Foo" \notin DOMAIN table

\* the records of a list that took the assignment branch and whose previous
\* question_id ('missing' when the key was absent) is not the one they hold now
ChangedCount(before, after) ==
    Cardinality({ i \in 1 .. Len(before) :
                    /\ HasPair(before[i])
                    /\ GetOr(before[i].question_id, Str("missing")) # after[i].question_id })

\* what a file contributes to the reported number of updated questions
CountedIn(f) ==
    IF f \in written THEN ChangedCount(disk0[f].items, disk[f].items) ELSE 0

\* C21: when a file is about to be saved its counter is the number of assigned
\* records whose previous question_id (or 'missing') differs from the new one;
\* the number reported after the loop is the sum of these over the files
\* written back, a record that already held its ID is rewritten but not
\* counted, and the second of two successive runs reports 0
C21_UpdatedCountsChanges ==
    /\ pc = "write" =>
          updated_count = ChangedCount(disk[cur].items, questions)
    /\ LoopOver =>
          total_questions_updated = CountedIn("a.json") + CountedIn("b.json")
    /\ (LoopOver /\ run = "second") => total_questions_updated = 0

\* the second run has rewritten a.json, whose two assigned records already held
\* their IDs, and reports 0 updated for 1 file processed
C21_Witness ==
    /\ Done
    /\ run = "second"
    /\ "a.json" \in written
    /\ Len(Items(disk["a.json"])) = 2
    /\ disk0["a.json"].items[1].question_id = Str("lr-str-001")
    /\ disk["a.json"].items[1].question_id = Str("lr-str-001")
    /\ disk["a.json"].items[2].question_id = Str("fo-barb-002")
    /\ files_processed = 1
    /\ total_questions_updated = 0

\* the file was read as a JSON list, the loop went through it and json.dump
\* saved it
ReadAndWrittenBack(f) ==
    /\ f \notin ExcludedNames
    /\ disk0[f].kind = "list"
    /\ ~Raises(disk0[f].items)
    /\ Encodable(LocalResult(disk0[f].items))

\* C22: the 'Files processed' number reported after the loop is the number of
\* non-excluded files that were read as a JSON list and written back; a file
\* that did not parse, is not a list, or raised during assignment is not
\* among them
C22_FilesProcessedCount ==
    LoopOver =>
        /\ files_processed = Cardinality({f \in Files : ReadAndWrittenBack(f)})
        /\ written = {f \in Files : ReadAndWrittenBack(f)}
        /\ \A f \in written : disk[f] = ListOf(LocalResult(disk0[f].items))
        /\ \A f \in Files :
              ( \/ disk0[f].kind \in {"bad", "truncated", "nonlist", "missing"}
                \/ disk0[f].kind = "list" /\ Raises(disk0[f].items) )
                  => f \notin written /\ disk[f] = disk0[f]

\* a.json raised during assignment and b.json, an empty list, was written
\* back: 1 file processed
C22_Witness ==
    /\ Done
    /\ run = "first"
    /\ disk0["a.json"] = ListOf(<<QStrengthen, QNumber>>)
    /\ disk0["b.json"] = ListOf(<<>>)
    /\ disk["b.json"] = ListOf(<<>>)
    /\ written = {"b.json"}
    /\ files_processed = 1

\* C23: a non-excluded file whose top-level value is not a list is never the
\* file in progress; after the loop it is on disk as the run found it, is not
\* among the written files and is not counted, and the other question file,
\* if the loop can assign and encode it, has been written back
C23_NonListSkipped ==
    \A f \in {"a.json", "b.json"} :
        disk0[f] = NonList =>
            /\ cur # f
            /\ disk[f] = NonList
            /\ f \notin written
            /\ LoopOver =>
                  /\ files_processed = Cardinality(written \ {f})
                  /\ \A g \in {"a.json", "b.json"} \ {f} :
                        ( /\ disk0[g].kind = "list"
                          /\ ~Raises(disk0[g].items)
                          /\ Encodable(disk0[g].items) )
                            => /\ g \in written
                               /\ disk[g] = ListOf(LocalResult(disk0[g].items))

\* b.json holds a JSON object and is as it was; a.json was assigned and
\* written, and is the one file counted
C23_Witness ==
    /\ Done
    /\ run = "first"
    /\ disk0["b.json"] = NonList
    /\ disk["b.json"] = NonList
    /\ disk0["a.json"] = ListOf(<<QUnknown, QStrengthen>>)
    /\ disk["a.json"].items[1].question_id = Str("fo-barb-001")
    /\ disk["a.json"].items[2].question_id = Str("lr-str-002")
    /\ written = {"a.json"}
    /\ files_processed = 1

\* the text after the last '-' of s (all of s when it holds none)
AfterLastHyphen(s) ==
    LET before == { h \in 0 .. Len(s) :
                      /\ h = 0 \/ SubSeq(s, h, h) = "-"
                      /\ \A k \in (h + 1) .. Len(s) : SubSeq(s, k, k) # "-" }
    IN  SubSeq(s, (CHOOSE h \in before : TRUE) + 1, Len(s))

\* codes as get_standardized_code returns them: from the table, and fallbacks
\* that hold further hyphens and digits
SampleCodes ==
    { "lr-str", "rc-inf",
      FallbackCode("Foo", "Barbaz"), FallbackCode("Foo", "A-1x"),
      FallbackCode("Foo", "-001"), FallbackCode("F", "-00"), FallbackCode("", "") }

\* positions in a file, on both sides of the 3-digit width
SamplePositions == ArgPositions \cup {1001}

\* IDs built for two different positions differ, and the text after the last
\* '-' of an ID is its position
IdsDifferByPosition ==
    \A c1 \in SampleCodes, p1 \in SamplePositions :
        /\ AfterLastHyphen(NewId(c1, p1)) = Pad3(p1)
        /\ \A c2 \in SampleCodes, p2 \in SamplePositions :
              p1 # p2 => NewId(c1, p1) # NewId(c2, p2)

\* C24: in a file the run has written back, two records at different indices
\* that were both assigned hold different question_ids, also when their codes
\* are equal, and the text after the last '-' of each is its own index; IDs
\* built for different positions differ for every code and beyond 999 records
C24_DistinctWithinFile ==
    /\ \A f \in written :
          \A i, j \in 1 .. Len(disk[f].items) :
              (i # j /\ HasPair(disk0[f].items[i]) /\ HasPair(disk0[f].items[j])) =>
                  /\ disk[f].items[i].question_id # disk[f].items[j].question_id
                  /\ AfterLastHyphen(disk[f].items[i].question_id.v) = Pad3(i)
    /\ IdsDifferByPosition

\* three records of one pair in a.json, all assigned in the first run:
\* one code, three IDs
C24_Witness ==
    /\ Done
    /\ run = "first"
    /\ disk0["a.json"] = ListOf(<<QStrengthen, QStrengthen, QStrengthen>>)
    /\ "a.json" \in written
    /\ disk["a.json"].items[1].question_id = Str("lr-str-001")
    /\ disk["a.json"].items[2].question_id = Str("lr-str-002")
    /\ disk["a.json"].items[3].question_id = Str("lr-str-003")

\* the scan of the record's file gets as far as the record: no dict record
\* before it holds an unhashable question_id
Reached(o) ==
    \A j \in 1 .. (o[2] - 1) :
        ~( /\ disk[o[1]].items[j].dict
           /\ disk[o[1]].items[j].question_id.k = "list" )

\* the non-empty question_ids the scan has tested and stored
ScannedIds ==
    { RecordAt(o).question_id :
        o \in { x \in Occurrences :
                  /\ Reached(x)
                  /\ Truthy(RecordAt(x).question_id)
                  /\ RecordAt(x).question_id.k # "list" } }

\* C25: when the report is out, every ID in duplicate_ids is held by at least
\* two dict records of the scanned files, duplicate_ids is a subset of all_ids,
\* and all_ids is the set of the non-empty question_ids the scan got to
C25_ReportIsSound ==
    Done =>
        /\ \A id \in duplicate_ids :
              Cardinality({o \in Occurrences : RecordAt(o).question_id = id}) >= 2
        /\ duplicate_ids \subseteq all_ids
        /\ all_ids = ScannedIds

\* both question files end with 'lr-str-001' and a.json also with
\* 'fo-barb-002': two IDs, one of them duplicated
C25_Witness ==
    /\ Done
    /\ run = "first"
    /\ disk0["a.json"] = ListOf(<<QStrengthen, QUnknown>>)
    /\ disk0["b.json"] = ListOf(<<QStrengthen>>)
    /\ written = {"a.json", "b.json"}
    /\ all_ids = {Str("lr-str-001"), Str("fo-barb-002")}
    /\ duplicate_ids = {Str("lr-str-001")}

\* both invocations have ended
BothEnded ==
    /\ procs # NoProcs
    /\ pc \in {"done", "returned"}
    /\ procs[1].pc \in {"done", "returned"}

\* one invocation has ended before the other one took a step
OneEndedAlone ==
    /\ procs # NoProcs
    /\ pc \in {"done", "returned"}
    /\ procs[1].pc = "start"

\* what a run that is alone on the corpus d leaves in file f
SequentialFinal(d, f) ==
    IF f \in ExcludedNames \/ d[f].kind # "list" THEN d[f]
    ELSE IF Raises(d[f].items) THEN d[f]
    ELSE IF Encodable(LocalResult(d[f].items)) THEN ListOf(LocalResult(d[f].items))
    ELSE Truncated

\* C26: a run that ends before the other invocation starts leaves every file
\* as SequentialFinal says, and when two invocations have both ended, however
\* their reads and writes were interleaved, every file is as that single
\* sequential run leaves it
C26_ConcurrentSameAsSequential ==
    /\ OneEndedAlone => \A f \in Files : disk[f] = SequentialFinal(disk1, f)
    /\ BothEnded => \A f \in Files : disk[f] = SequentialFinal(disk1, f)

\* both invocations read a.json before either wrote it (each counts its
\* record as updated) and both wrote it: it holds the ID of a single run
C26_Witness ==
    /\ BothEnded
    /\ disk1["a.json"] = ListOf(<<QStrengthen>>)
    /\ disk1["b.json"] = ListOf(<<>>)
    /\ disk["a.json"] = ListOf(<<[QStrengthen EXCEPT !.question_id = Str("lr-str-001")]>>)
    /\ total_questions_updated = 1
    /\ procs[1].total_questions_updated = 1
    /\ written = {"a.json", "b.json"}
    /\ procs[1].written = {"a.json", "b.json"}

\* C27: no call of migrate_question for a question_id the tenant already
\* holds ends with a row inserted, and no question_id is held by two rows
C27_NeverInsertsStored ==
    /\ (mig.last.made /\ mig.last.stored) => mig.last.outcome # "inserted"
    /\ \A j, k \in 1..Len(db.rows) : db.rows[j] = db.rows[k] => j = k

\* C29: when migrate_file is through with a file that holds a JSON list,
\* migrate_question was called on every record of the list, in file order,
\* and the file was counted in files_processed
C29_ListFileMigrated ==
    ( /\ mig.pc \in {"files", "returned"}
      /\ mig.file.name # NoFile
      /\ disk[mig.file.name].kind = "list" )
        => /\ mig.file.called = disk[mig.file.name].items
           /\ mig.file.counted

SetupSteps == <<"test_connection", "verify_tables", "get_tenant_id", "get_exam_type_id">>

\* C30: the set-up steps succeed in the order connection test, table
\* verification, tenant, exam type; a question lookup or insert is sent, and
\* the files are listed and loaded, only after all four; a run that ends
\* before has returned False with nothing migrated, skipped or processed
C30_SetupBeforeQuestions ==
    /\ Len(mig.steps) <= Len(SetupSteps)
    /\ mig.steps = SubSeq(SetupSteps, 1, Len(mig.steps))
    /\ (mig.touched \/ mig.pc \in {"list_files", "files", "questions"}) =>
          mig.steps = SetupSteps
    /\ (mig.pc = "returned" /\ mig.steps # SetupSteps) =>
          /\ mig.result = "False"
          /\ ~mig.touched
          /\ mig.stats.questions_migrated = 0
          /\ mig.stats.skipped = 0
          /\ mig.stats.files_processed = 0
    /\ (mig.pc = "returned" /\ mig.steps = SetupSteps) => mig.result = "True"

\* the tenant was created, the exam type could not be: the run returned False
\* after three steps, over a directory that holds a question not yet stored
C30_Witness ==
    /\ mig.pc = "returned"
    /\ mig.run = "first"
    /\ mig.steps = <<"test_connection", "verify_tables", "get_tenant_id">>
    /\ mig.result = "False"
    /\ mig.stats = NewStats
    /\ db.tenant /\ ~db.exam_type
    /\ db.rows = <<>>
    /\ disk["a.json"] = ObjectOf(<<MStrengthen>>)

\* C28: in every state of the import of a directory, run once or twice, no
\* question_id is held by two rows of the tenant
C28_NoIdInsertedTwice ==
    \A j, k \in 1..Len(db.rows) : db.rows[j] = db.rows[k] => j = k

====
